---- MODULE Spec2Model ----
(***************************************************************************)
(* Model of the encrypted RPC transport of p2p-claude-code.                *)
(*                                                                         *)
(* Client side (src/src/client/rpc.ts, class RpcClient): the connection    *)
(* lifecycle (ensureConnected, the socket event handlers, the 10 s connect *)
(* timer, scheduleReconnect, reconnect, destroy) and the request/response  *)
(* correlator (call, processBuffer).                                       *)
(*                                                                         *)
(* Execution model: Node's single thread.  One action is one macrotask     *)
(* (a user call, a socket event, a timer) together with the promise        *)
(* continuations it releases, which run before any other macrotask.        *)
(* A transport socket is a streamx Duplex: an 'error' event is followed by *)
(* the 'close' event of the same socket before anything else runs, and a   *)
(* local destroy() is followed by 'close' at some later time.              *)
(***************************************************************************)
EXTENDS Integers, Sequences, FiniteSets, TLC

\* ---------------------------------------------------------------- bounds
MaxSockets == 2
MaxCalls == 2
MaxAttempts == 2
MaxListeners == 2
MaxRequests == 3
MaxSessionIds == 2
MaxProcs == 2
MaxEvents == 3
MaxBurst == 1002
PollWindow == 1
MaxRegistryEvents == 1

\* ------------------------------------------------------ program constants
maxReconnectAttempts == 10
BaseDelayMs == 1000
MaxDelayMs == 30000
OutputCap == 1000
OutputKeep == 500

Null == 0
Slots == 1..MaxSockets
CallIds == 1..MaxCalls
ListenerIds == 1..MaxListeners
ReqIds == 1..MaxRequests
Sids == 1..MaxSessionIds
ProcIds == 1..MaxProcs

VARIABLES
    connected,          \* this.connected
    connectPromise,     \* this.connectPromise: Null or the slot of the attempt
    socket,             \* this.socket: Null or the slot of the socket
    sock,               \* per slot: the socket made by one connect attempt
    waiters,            \* per slot: calls awaiting the attempt's promise, in order
    retryWait,          \* slots whose promise a retry callback awaits
    pendingRequests,    \* keys of this.pendingRequests
    callTimer,          \* calls whose timeout timer is armed
    outcome,            \* per call: what the caller's promise settled with
    nCalls,             \* number of call() invocations so far
    nAttempts,          \* number of connect attempts started so far (saturating)
    unanswered,         \* per slot: requests written on it the peer has not answered
    reconnectAttempts,  \* this.reconnectAttempts
    reconnectTimer,     \* this.reconnectTimer: Null or the delay it was armed with
    retryTimers,        \* number of retry timers armed (set, neither fired nor cleared)
    isDestroyed,        \* this.isDestroyed
    connectionListeners, \* this.connectionListeners, in registration order
    heard,              \* history: the listener calls made by the last step, in order
    notified,           \* history: the state of the last listener call made, or "none"
    written,            \* history: the calls whose request the last step wrote, in order
    ev,                 \* history: the last event, when it was a response line, a call
                        \* timeout or a reconnect() (then c is the delay of the timer it cleared)
    retriesSince,       \* history: retries scheduled since the last open / reconnect()
    freshConn,          \* history: connected was entered and no retry scheduled since
    priorRetries,       \* history: two or more retries preceded the last entry into connected,
                        \* and at most one retry was scheduled since
    gaveUp              \* history: scheduleReconnect() refused at the cap, and since then
                        \* reconnect() was not called and no retry was scheduled

\* One connection of DhtServer (handleConnection).
VARIABLES
    srvOpen,            \* the connection's socket is open
    srvBuffer,          \* `buffer`: the complete lines received and not yet taken
    srvPending,         \* ids of the requests whose onRequest handler is running
    srvOut,             \* the response lines written on the socket, in order
    srvReq,             \* history, per request id: how far the request got
    nReqs               \* number of non-blank lines received so far

\* The Daemon: its session registry and the processes it spawned.
VARIABLES
    rootDir,            \* this.rootDir: [set, path], the resolved root when set
    sessions,           \* this.sessions: session id -> Null or the process tracked under it
    proc,               \* per spawned process: its state and its TrackedSession fields
    nProcs,             \* number of processes spawned so far
    isShuttingDown,     \* this.isShuttingDown
    dhtWrites,          \* number of mutablePut calls of storeSessionState in flight
    returned,           \* history, per process: the events clearing polls have returned
    evicted,            \* history, per process: the events the overflow rule dropped
    dres                \* history: the last RPC handled and its result

\* The two Encryption objects (client and daemon) and one envelope between them.
VARIABLES
    clientKey,          \* this.key of the client's Encryption
    daemonKey,          \* this.key of the daemon's Encryption
    wire,               \* the envelope text last produced by an encrypt call
    sealed,             \* history: the last encrypt call (who, value, nonce)
    opened              \* history: the last decrypt call, its input and its result

\* One line reader, the client's or the server's, and the byte stream of its
\* connection.
VARIABLES
    rside,              \* whose reader it is: "client" or "server"
    rconn,              \* history: the number of the reader's connection
    rsent,              \* history: the bytes received on this connection so far
    rbuf,               \* this.buffer (client) or `buffer` (server)
    rlines              \* history: the lines of this connection handed to JSON.parse

dmnVars == <<rootDir, sessions, proc, nProcs, isShuttingDown, dhtWrites,
            returned, evicted, dres>>

srvVars == <<srvOpen, srvBuffer, srvPending, srvOut, srvReq, nReqs>>

cliVars == <<connected, connectPromise, socket, sock, waiters, retryWait,
          pendingRequests, callTimer, outcome, nCalls, nAttempts, unanswered,
          reconnectAttempts, reconnectTimer, retryTimers, isDestroyed,
          connectionListeners, heard, notified, written, ev,
          retriesSince, freshConn, priorRetries, gaveUp>>

codVars == <<clientKey, daemonKey, wire, sealed, opened>>

rdrVars == <<rside, rconn, rsent, rbuf, rlines>>

vars == <<cliVars, srvVars, dmnVars, codVars, rdrVars>>

\* ------------------------------------------------------------ the codec
\* Buffers are sequences of bytes (0..255), strings are sequences of
\* character codes, base64 text is a sequence of alphabet indices (0..63)
\* and padding signs.

Pad == 64               \* the '=' sign of base64 text
KeyLen == 32
NonceLen == 12
TagLen == 16
MinBundle == 29
Version == 0
Replacement == 65533    \* U+FFFD, what toString('utf-8') makes of a malformed byte

RECURSIVE Sum(_)
Sum(q) == IF q = <<>> THEN 0 ELSE Head(q) + Sum(Tail(q))

Drop(q, n) == SubSeq(q, n + 1, Len(q))

Take(q, n) == SubSeq(q, 1, n)

\* buf.toString('base64'): three bytes make four signs, a rest of one or
\* two bytes is padded.
RECURSIVE toBase64(_)
toBase64(b) ==
    IF Len(b) = 0 THEN <<>>
    ELSE IF Len(b) = 1
    THEN <<b[1] \div 4, (b[1] % 4) * 16, Pad, Pad>>
    ELSE IF Len(b) = 2
    THEN LET n == (b[1] * 256) + b[2]
         IN  <<n \div 1024, (n \div 16) % 64, (n % 16) * 4, Pad>>
    ELSE LET n == (b[1] * 65536) + (b[2] * 256) + b[3]
         IN  <<n \div 262144, (n \div 4096) % 64, (n \div 64) % 64, n % 64>>
                 \o toBase64(Drop(b, 3))

\* Buffer.from(text, 'base64'): decoding stops at the first padding sign; a
\* rest of two or three signs makes one or two bytes, a rest of one sign none.
RECURSIVE fromSigns(_)
fromSigns(x) ==
    IF Len(x) < 2 THEN <<>>
    ELSE IF Len(x) = 2
    THEN <<(x[1] * 4) + (x[2] \div 16)>>
    ELSE IF Len(x) = 3
    THEN <<(x[1] * 4) + (x[2] \div 16), ((x[2] % 16) * 16) + (x[3] \div 4)>>
    ELSE <<(x[1] * 4) + (x[2] \div 16), ((x[2] % 16) * 16) + (x[3] \div 4),
           ((x[3] % 4) * 64) + x[4]>> \o fromSigns(Drop(x, 4))

RECURSIVE UpToPad(_)
UpToPad(x) ==
    IF x = <<>> \/ Head(x) = Pad THEN <<>> ELSE <<Head(x)>> \o UpToPad(Tail(x))

fromBase64(x) == fromSigns(UpToPad(x))

\* Buffer.from(str, 'utf-8'): one byte below U+0080, two below U+0800.
RECURSIVE utf8(_)
utf8(s) ==
    IF s = <<>> THEN <<>>
    ELSE (IF Head(s) < 128 THEN <<Head(s)>>
          ELSE <<192 + (Head(s) \div 64), 128 + (Head(s) % 64)>>) \o utf8(Tail(s))

\* buf.toString('utf-8'): a malformed byte becomes U+FFFD.
RECURSIVE fromUtf8(_)
fromUtf8(b) ==
    IF b = <<>> THEN <<>>
    ELSE IF b[1] < 128 THEN <<b[1]>> \o fromUtf8(Tail(b))
    ELSE IF /\ Len(b) >= 2
            /\ b[1] \in 194..223
            /\ b[2] \in 128..191
    THEN <<((b[1] - 192) * 64) + (b[2] - 128)>> \o fromUtf8(Drop(b, 2))
    ELSE <<Replacement>> \o fromUtf8(Tail(b))

\* JavaScript values that JSON carries. An object's items are its member
\* names and member values in turn, in insertion order.
JNull == [t |-> "null", n |-> 0, s |-> <<>>, items |-> <<>>]

JBool(b) == [t |-> "bool", n |-> IF b THEN 1 ELSE 0, s |-> <<>>, items |-> <<>>]

JNum(n) == [t |-> "num", n |-> n, s |-> <<>>, items |-> <<>>]

JStr(s) == [t |-> "str", n |-> 0, s |-> s, items |-> <<>>]

JArr(items) == [t |-> "arr", n |-> 0, s |-> <<>>, items |-> items]

JObj(items) == [t |-> "obj", n |-> 0, s |-> <<>>, items |-> items]

\* Character codes of the JSON grammar.
Quote == 34
Backslash == 92
Comma == 44
Colon == 58
Zero == 48
LBracket == 91
RBracket == 93
LBrace == 123
RBrace == 125
NullText == <<110, 117, 108, 108>>
TrueText == <<116, 114, 117, 101>>
FalseText == <<102, 97, 108, 115, 101>>

RECURSIVE Digits(_)
Digits(n) == IF n < 10 THEN <<Zero + n>> ELSE Digits(n \div 10) \o <<Zero + (n % 10)>>

RECURSIVE Escape(_)
Escape(s) ==
    IF s = <<>> THEN <<>>
    ELSE (IF Head(s) \in {Quote, Backslash} THEN <<Backslash, Head(s)>> ELSE <<Head(s)>>)
             \o Escape(Tail(s))

\* JSON.stringify(value)
RECURSIVE stringify(_)
RECURSIVE stringifyItems(_)
RECURSIVE stringifyMembers(_)
stringify(v) ==
    CASE v.t = "null" -> NullText
      [] v.t = "bool" -> IF v.n = 1 THEN TrueText ELSE FalseText
      [] v.t = "num" -> Digits(v.n)
      [] v.t = "str" -> <<Quote>> \o Escape(v.s) \o <<Quote>>
      [] v.t = "arr" -> <<LBracket>> \o stringifyItems(v.items) \o <<RBracket>>
      [] v.t = "obj" -> <<LBrace>> \o stringifyMembers(v.items) \o <<RBrace>>

stringifyItems(q) ==
    IF q = <<>> THEN <<>>
    ELSE stringify(Head(q))
             \o (IF Len(q) > 1 THEN <<Comma>> \o stringifyItems(Tail(q)) ELSE <<>>)

stringifyMembers(q) ==
    IF q = <<>> THEN <<>>
    ELSE stringify(q[1]) \o <<Colon>> \o stringify(q[2])
             \o (IF Len(q) > 2 THEN <<Comma>> \o stringifyMembers(Drop(q, 2)) ELSE <<>>)

\* JSON.parse(text): a parse step yields the value and the text left over.
SyntaxError == [ok |-> FALSE, v |-> JNull, rest |-> <<>>]

Parsed(v, rest) == [ok |-> TRUE, v |-> v, rest |-> rest]

HasPrefix(x, prefix) == Len(x) >= Len(prefix) /\ Take(x, Len(prefix)) = prefix

IsDigit(c) == c \in Zero..(Zero + 9)

RECURSIVE parseDigits(_, _)
parseDigits(x, n) ==
    IF x # <<>> /\ IsDigit(Head(x))
    THEN parseDigits(Tail(x), (n * 10) + (Head(x) - Zero))
    ELSE Parsed(JNum(n), x)

RECURSIVE parseString(_, _)
parseString(x, s) ==
    IF x = <<>> THEN SyntaxError
    ELSE IF Head(x) = Quote THEN Parsed(JStr(s), Tail(x))
    ELSE IF Head(x) = Backslash
    THEN IF Len(x) >= 2 /\ x[2] \in {Quote, Backslash}
         THEN parseString(Drop(x, 2), Append(s, x[2]))
         ELSE SyntaxError
    ELSE parseString(Tail(x), Append(s, Head(x)))

RECURSIVE parseValue(_)
RECURSIVE parseItems(_, _)
RECURSIVE parseMembers(_, _)
parseValue(x) ==
    IF x = <<>> THEN SyntaxError
    ELSE IF HasPrefix(x, NullText) THEN Parsed(JNull, Drop(x, 4))
    ELSE IF HasPrefix(x, TrueText) THEN Parsed(JBool(TRUE), Drop(x, 4))
    ELSE IF HasPrefix(x, FalseText) THEN Parsed(JBool(FALSE), Drop(x, 5))
    ELSE IF Head(x) = Zero THEN Parsed(JNum(0), Tail(x))
    ELSE IF IsDigit(Head(x)) THEN parseDigits(x, 0)
    ELSE IF Head(x) = Quote THEN parseString(Tail(x), <<>>)
    ELSE IF Head(x) = LBracket
    THEN IF Len(x) >= 2 /\ x[2] = RBracket
         THEN Parsed(JArr(<<>>), Drop(x, 2))
         ELSE parseItems(Tail(x), <<>>)
    ELSE IF Head(x) = LBrace
    THEN IF Len(x) >= 2 /\ x[2] = RBrace
         THEN Parsed(JObj(<<>>), Drop(x, 2))
         ELSE parseMembers(Tail(x), <<>>)
    ELSE SyntaxError

parseItems(x, items) ==
    LET r == parseValue(x)
    IN  IF ~r.ok \/ r.rest = <<>> THEN SyntaxError
        ELSE IF Head(r.rest) = RBracket
        THEN Parsed(JArr(Append(items, r.v)), Tail(r.rest))
        ELSE IF Head(r.rest) = Comma
        THEN parseItems(Tail(r.rest), Append(items, r.v))
        ELSE SyntaxError

parseMembers(x, items) ==
    LET k == parseValue(x)
    IN  IF ~k.ok \/ k.v.t # "str" \/ k.rest = <<>> \/ Head(k.rest) # Colon
        THEN SyntaxError
        ELSE LET r == parseValue(Tail(k.rest))
             IN  IF ~r.ok \/ r.rest = <<>> THEN SyntaxError
                 ELSE IF Head(r.rest) = RBrace
                 THEN Parsed(JObj(items \o <<k.v, r.v>>), Tail(r.rest))
                 ELSE IF Head(r.rest) = Comma
                 THEN parseMembers(Tail(r.rest), items \o <<k.v, r.v>>)
                 ELSE SyntaxError

parse(x) ==
    LET r == parseValue(x)
    IN  IF r.ok /\ r.rest = <<>> THEN r ELSE SyntaxError

\* AES-256-GCM of node:crypto, as a cipher that is invertible under the
\* same key and nonce and a tag that depends on key, nonce and ciphertext.
keystream(key, nonce, i) ==
    (key[((i - 1) % KeyLen) + 1] + nonce[((i - 1) % NonceLen) + 1] + i) % 256

cipherUpdate(key, nonce, plaintext) ==
    [i \in 1..Len(plaintext) |-> (plaintext[i] + keystream(key, nonce, i)) % 256]

decipherUpdate(key, nonce, ciphertext) ==
    [i \in 1..Len(ciphertext) |-> (ciphertext[i] + 256 - keystream(key, nonce, i)) % 256]

RECURSIVE Weighted(_, _)
Weighted(q, i) == IF q = <<>> THEN 0 ELSE (i * Head(q)) + Weighted(Tail(q), i + 1)

getAuthTag(key, nonce, ciphertext) ==
    LET mac == Sum(key) + Weighted(nonce, 1) + Weighted(ciphertext, 1)
    IN  [i \in 1..TagLen |-> (mac + i) % 256]

\* decipher.final() throws unless the tag set is the tag of the ciphertext.
decipherFinal(key, nonce, ciphertext, authTag) ==
    authTag = getAuthTag(key, nonce, ciphertext)

\* What a decrypt call came to: a value, or the error it threw; deciphered
\* says whether createDecipheriv was reached.
NoOpened ==
    [by |-> "none", text |-> <<>>, kind |-> "none", error |-> "none",
     val |-> JNull, deciphered |-> FALSE]

Thrown(error, deciphered) ==
    [by |-> "none", text |-> <<>>, kind |-> "error", error |-> error,
     val |-> JNull, deciphered |-> deciphered]

Decrypted(v) ==
    [by |-> "none", text |-> <<>>, kind |-> "value", error |-> "none",
     val |-> v, deciphered |-> TRUE]

\* Mutant of encrypt: the tag is copied in front of the ciphertext.
encryptTagFirst(key, data, nonce) ==
    LET plaintext == utf8(stringify(data))
        encrypted == cipherUpdate(key, nonce, plaintext)
        authTag == getAuthTag(key, nonce, encrypted)
    IN  toBase64(<<Version>> \o nonce \o authTag \o encrypted)

\* Encryption.encrypt of the daemon; nonce is what randomBytes(12) returned.
encrypt(key, data, nonce) ==
    LET plaintext == utf8(stringify(data))
        encrypted == cipherUpdate(key, nonce, plaintext)
        authTag == getAuthTag(key, nonce, encrypted)
    IN  toBase64(<<Version>> \o nonce \o encrypted \o authTag)

\* Mutant of decrypt: the version byte is not looked at.
decryptAnyVersion(key, encryptedBase64) ==
    LET bundle == fromBase64(encryptedBase64)
    IN  IF Len(bundle) < MinBundle THEN Thrown("Encrypted bundle too short", FALSE)
        ELSE LET nonce == SubSeq(bundle, 2, 1 + NonceLen)
                 authTag == SubSeq(bundle, Len(bundle) - TagLen + 1, Len(bundle))
                 ciphertext == SubSeq(bundle, 2 + NonceLen, Len(bundle) - TagLen)
             IN  IF ~decipherFinal(key, nonce, ciphertext, authTag)
                 THEN Thrown("unable to authenticate data", TRUE)
                 ELSE LET r == parse(fromUtf8(decipherUpdate(key, nonce, ciphertext)))
                      IN  IF r.ok THEN Decrypted(r.v) ELSE Thrown("SyntaxError", TRUE)

\* Encryption.decrypt of the daemon.
decrypt(key, encryptedBase64) ==
    LET bundle == fromBase64(encryptedBase64)
    IN  IF Len(bundle) < MinBundle THEN Thrown("Encrypted bundle too short", FALSE)
        ELSE IF bundle[1] # Version THEN Thrown("Unknown encryption version", FALSE)
        ELSE LET nonce == SubSeq(bundle, 2, 1 + NonceLen)
                 authTag == SubSeq(bundle, Len(bundle) - TagLen + 1, Len(bundle))
                 ciphertext == SubSeq(bundle, 2 + NonceLen, Len(bundle) - TagLen)
             IN  IF ~decipherFinal(key, nonce, ciphertext, authTag)
                 THEN Thrown("unable to authenticate data", TRUE)
                 ELSE LET r == parse(fromUtf8(decipherUpdate(key, nonce, ciphertext)))
                      IN  IF r.ok THEN Decrypted(r.v) ELSE Thrown("SyntaxError", TRUE)

\* Encryption.encrypt of the client.
clientEncrypt(key, data, nonce) ==
    LET plaintext == utf8(stringify(data))
        encrypted == cipherUpdate(key, nonce, plaintext)
        authTag == getAuthTag(key, nonce, encrypted)
    IN  toBase64(<<Version>> \o nonce \o encrypted \o authTag)

\* Encryption.decrypt of the client.
clientDecrypt(key, encryptedBase64) ==
    LET bundle == fromBase64(encryptedBase64)
    IN  IF Len(bundle) < MinBundle THEN Thrown("Bundle too short", FALSE)
        ELSE IF bundle[1] # Version THEN Thrown("Unknown version", FALSE)
        ELSE LET nonce == SubSeq(bundle, 2, 1 + NonceLen)
                 authTag == SubSeq(bundle, Len(bundle) - TagLen + 1, Len(bundle))
                 ciphertext == SubSeq(bundle, 2 + NonceLen, Len(bundle) - TagLen)
             IN  IF ~decipherFinal(key, nonce, ciphertext, authTag)
                 THEN Thrown("unable to authenticate data", TRUE)
                 ELSE LET r == parse(fromUtf8(decipherUpdate(key, nonce, ciphertext)))
                      IN  IF r.ok THEN Decrypted(r.v) ELSE Thrown("SyntaxError", TRUE)

\* The keys, nonces and values of the codec specification.
SharedKey == [i \in 1..KeyLen |-> 1]

Keys == {SharedKey, [i \in 1..KeyLen |-> (7 * i) % 256]}

Nonces == {[i \in 1..NonceLen |-> i], [i \in 1..NonceLen |-> 255]}

Payloads ==
    LET name == JStr(<<97>>)
    IN  {JNull, JBool(TRUE), JNum(0), JNum(120), JStr(<<>>),
         JStr(<<Quote, Backslash>>), JStr(<<233, 97>>),
         JArr(<<JBool(FALSE), name>>), JObj(<<>>),
         JObj(<<name, JObj(<<name, JArr(<<>>)>>), JStr(<<98>>), JNum(42)>>)}

NoSealed == [by |-> "none", data |-> JNull, nonce |-> <<>>]

Codecs == {"client", "daemon"}

KeyOf(side) == IF side = "client" THEN clientKey ELSE daemonKey

\* new Encryption(key) on both sides; no envelope yet.
CodecInit(kc, kd) ==
    /\ clientKey = kc
    /\ daemonKey = kd
    /\ wire = <<>>
    /\ sealed = NoSealed
    /\ opened = NoOpened

\* ------------------------------------------------------- the line readers
MaxChunk == 2           \* bytes in one chunk
MaxStream == 4          \* bytes received on one connection
MaxConnections == 2     \* connections of one reader

Newline == 10

Whitespace == {9, 10, 13, 32}

\* The bytes of the streams: newline, space, the digit 1, and the two bytes
\* of U+00E9.
StreamBytes == {Newline, 32, 49, 195, 169}

\* String.prototype.trim
RECURSIVE trimStart(_)
trimStart(s) == IF s # <<>> /\ Head(s) \in Whitespace THEN trimStart(Tail(s)) ELSE s

RECURSIVE trimEnd(_)
trimEnd(s) ==
    IF s # <<>> /\ s[Len(s)] \in Whitespace THEN trimEnd(Take(s, Len(s) - 1)) ELSE s

trim(s) == trimEnd(trimStart(s))

\* str.split('\n'): the segments between the newlines, at least one.
RECURSIVE split(_, _)
split(s, seg) ==
    IF s = <<>> THEN <<seg>>
    ELSE IF Head(s) = Newline THEN <<seg>> \o split(Tail(s), <<>>)
    ELSE split(Tail(s), Append(seg, Head(s)))

\* What a 'data' handler leaves: the buffer and the lines it handed on.
Read(buffer, lines) == [buffer |-> buffer, lines |-> lines]

\* The client's 'data' handler and processBuffer: the chunk is decoded and
\* appended, the buffer split at the newlines, the last segment kept, and
\* every other segment that is not blank handed to JSON.parse.
clientOnData(buffer, chunk) ==
    LET lines == split(buffer \o fromUtf8(chunk), <<>>)
    IN  Read(lines[Len(lines)],
             SelectSeq(Take(lines, Len(lines) - 1), LAMBDA line : trim(line) # <<>>))

\* The while loop of the server's 'data' handler: up to the first newline,
\* trimmed, is a line; blank lines are skipped.
RECURSIVE serverLoop(_, _)
serverLoop(buffer, lines) ==
    IF \A i \in 1..Len(buffer) : buffer[i] # Newline THEN Read(buffer, lines)
    ELSE LET newlineIndex == CHOOSE i \in 1..Len(buffer) :
                                /\ buffer[i] = Newline
                                /\ \A j \in 1..(i - 1) : buffer[j] # Newline
             line == trim(Take(buffer, newlineIndex - 1))
         IN  serverLoop(Drop(buffer, newlineIndex),
                        IF line = <<>> THEN lines ELSE Append(lines, line))

\* The server's 'data' handler.
serverOnData(buffer, chunk) == serverLoop(buffer \o fromUtf8(chunk), <<>>)

\* A reader before its first connection has delivered anything.
ReaderInit(side) ==
    /\ rside = side
    /\ rconn = 1
    /\ rsent = <<>>
    /\ rbuf = <<>>
    /\ rlines = <<>>

\* The program state as one record, so that handlers compose as functions.
State ==
    [connected |-> connected, connectPromise |-> connectPromise,
     socket |-> socket, sock |-> sock, waiters |-> waiters,
     retryWait |-> retryWait, pendingRequests |-> pendingRequests,
     callTimer |-> callTimer, outcome |-> outcome, nCalls |-> nCalls,
     unanswered |-> unanswered, reconnectAttempts |-> reconnectAttempts,
     reconnectTimer |-> reconnectTimer, retryTimers |-> retryTimers,
     isDestroyed |-> isDestroyed, gaveUp |-> gaveUp,
     connectionListeners |-> connectionListeners, heard |-> <<>>,
     written |-> <<>>, deferred |-> <<>>]

Min(a, b) == IF a < b THEN a ELSE b

NoOutcome == [kind |-> "none", val |-> 0]
Out(k) == [kind |-> k, val |-> 0]

\* A socket nobody refers to any more: closed, its connect timer fired, no waiter.
DeadSock == [st |-> "closed", promise |-> "settled", timer |-> FALSE, opened |-> FALSE]

Alive(S, s) == S.sock[s].st \in {"connecting", "open"}
Destroyed(S, s) == ~Alive(S, s)

\* ------------------------------------------------------------ RpcClient

getConnectionStateOf(S) ==
    IF S.connectPromise # Null THEN "connecting"
    ELSE IF S.connected THEN "connected"
    ELSE "disconnected"

getConnectionState == getConnectionStateOf(State)

\* notifyConnectionChange is defined below, after call(), which a listener may
\* invoke.
RECURSIVE notifyConnectionChange(_, _)

\* A promise settles once: resolve/reject on a settled promise does nothing.
Settle(oc, c, o) == IF oc[c].kind = "none" THEN [oc EXCEPT ![c] = o] ELSE oc

\* Mutant of BackoffDelay: the 30 s cap is forgotten.
BackoffDelayNoCap(n) == BaseDelayMs * (2 ^ n)

BackoffDelay(n) == Min(BaseDelayMs * (2 ^ n), MaxDelayMs)

scheduleReconnect(S) ==
    IF S.isDestroyed \/ S.reconnectTimer # Null THEN S
    ELSE IF S.reconnectAttempts >= maxReconnectAttempts THEN [S EXCEPT !.gaveUp = TRUE]
    ELSE [S EXCEPT !.reconnectTimer = BackoffDelay(S.reconnectAttempts),
                   !.retryTimers = @ + 1,
                   !.reconnectAttempts = S.reconnectAttempts + 1]

\* socket.write(line) inside call(): the request reaches the peer when the
\* socket is (or becomes) open; on a destroyed socket the write either throws
\* (caught: entry deleted, timer cleared, reject(err)) or is dropped.
Write(S, c, wthrow) ==
    IF S.socket # Null /\ Alive(S, S.socket)
    THEN [S EXCEPT !.unanswered[S.socket] = @ \cup {c},
                   !.written = Append(@, c)]
    ELSE IF wthrow
    THEN [S EXCEPT !.pendingRequests = @ \ {c},
                   !.callTimer = @ \ {c},
                   !.outcome = Settle(@, c, Out("writeError"))]
    ELSE S

\* call() after `await ensureConnected()`: arm the timer, register, write.
callContinue(S, c, wthrow) ==
    Write([S EXCEPT !.callTimer = @ \cup {c},
                    !.pendingRequests = @ \cup {c}], c, wthrow)

RECURSIVE ResumeAll(_, _, _)
ResumeAll(S, ws, wthrow) ==
    IF ws = <<>> THEN S
    ELSE ResumeAll(callContinue(S, Head(ws), wthrow), Tail(ws), wthrow)

RECURSIVE FailAll(_, _, _)
FailAll(oc, ws, o) ==
    IF ws = <<>> THEN oc ELSE FailAll(Settle(oc, Head(ws), o), Tail(ws), o)

\* resolve() of attempt s: every awaiting call continues, in await order.
ResolveAttempt(S, s, wthrow) ==
    IF S.sock[s].promise # "pending" THEN S
    ELSE LET S1 == [S EXCEPT !.sock[s].promise = "settled",
                             !.waiters[s] = <<>>,
                             !.retryWait = @ \ {s}]
         IN ResumeAll(S1, S.waiters[s], wthrow)

\* reject(err) of attempt s: every awaiting call() rejects with err itself;
\* an awaiting retry callback runs its catch block.
RejectAttempt(S, s, kind) ==
    IF S.sock[s].promise # "pending" THEN S
    ELSE LET S1 == [S EXCEPT !.sock[s].promise = "settled",
                             !.waiters[s] = <<>>,
                             !.retryWait = @ \ {s},
                             !.outcome = FailAll(@, S.waiters[s], Out(kind))]
         IN IF s \in S.retryWait THEN scheduleReconnect(S1) ELSE S1

\* Which way ensureConnected() goes.
EnsurePath(S) ==
    IF S.isDestroyed THEN "throw"
    ELSE IF S.connected /\ S.socket # Null /\ ~Destroyed(S, S.socket) THEN "ready"
    ELSE IF S.connectPromise # Null THEN "join"
    ELSE "start"

Reusable(S, s) ==
    /\ S.sock[s].st = "closed"
    /\ ~S.sock[s].timer
    /\ S.waiters[s] = <<>>
    /\ s \notin S.retryWait

FreeSlots(S) == {s \in Slots : Reusable(S, s)}
NewSlot(S) == CHOOSE s \in FreeSlots(S) : \A t \in FreeSlots(S) : s <= t

\* The body of `new Promise(...)` in ensureConnected(): dht.connect, the
\* handlers, the 10 s timer.
StartAttempt(S) ==
    LET s == NewSlot(S) IN
    [notifyConnectionChange(S, "connecting") EXCEPT
              !.socket = s,
              !.connectPromise = s,
              !.sock[s] = [st |-> "connecting", promise |-> "pending",
                           timer |-> TRUE, opened |-> FALSE],
              !.unanswered[s] = {}]

ensureConnected(S) ==
    IF EnsurePath(S) = "start" THEN StartAttempt(S) ELSE S

\* The promise ensureConnected() returned, after it ran: Null when it
\* returned at once.
Awaited(S0, S1) ==
    CASE EnsurePath(S0) = "join" -> S0.connectPromise
      [] EnsurePath(S0) = "start" -> S1.connectPromise
      [] OTHER -> Null

call(S, wthrow) ==
    LET c == S.nCalls + 1
        S0 == [S EXCEPT !.nCalls = c]
        S1 == ensureConnected(S0)
        a == Awaited(S0, S1)
    IN CASE EnsurePath(S0) = "throw" ->
                [S0 EXCEPT !.outcome = Settle(@, c, Out("clientDestroyed"))]
         [] EnsurePath(S0) = "ready" -> callContinue(S0, c, wthrow)
         [] OTHER -> [S1 EXCEPT !.waiters[a] = Append(@, c)]

\* call() invoked from inside a listener: it runs up to its
\* `await ensureConnected()`.  When ensureConnected() returns at once the
\* rest of call() is a microtask queued there and then; otherwise the call
\* awaits the connect attempt like any other.
callFromListener(S) ==
    LET c == S.nCalls + 1
        S0 == [S EXCEPT !.nCalls = c]
        S1 == ensureConnected(S0)
        a == Awaited(S0, S1)
    IN CASE EnsurePath(S0) = "throw" ->
                [S0 EXCEPT !.outcome = Settle(@, c, Out("clientDestroyed"))]
         [] EnsurePath(S0) = "ready" -> [S0 EXCEPT !.deferred = Append(@, c)]
         [] OTHER -> [S1 EXCEPT !.waiters[a] = Append(@, c)]

\* The loop of notifyConnectionChange: every listener is called in order; what
\* a listener throws is caught and the loop goes on.  A listener like the one
\* of the chat client (calls) invokes call() when it is told 'connected'.
RECURSIVE NotifyLoop(_, _, _)
NotifyLoop(S, ls, state) ==
    IF ls = <<>> THEN S
    ELSE LET l == Head(ls)
             S1 == [S EXCEPT !.heard = Append(@, [l |-> l.id, state |-> state])]
         IN NotifyLoop(IF l.calls /\ state = "connected" THEN callFromListener(S1) ELSE S1,
                       Tail(ls), state)

notifyConnectionChange(S, state) == NotifyLoop(S, S.connectionListeners, state)

\* The microtasks queued by the handler that is returning run, in order.
RunDeferred(S, wthrow) ==
    ResumeAll([S EXCEPT !.deferred = <<>>], S.deferred, wthrow)

\* Mutant of onConnect: the attempt counter is not reset.
onConnectNoReset(S, s, wthrow) ==
    ResolveAttempt(RunDeferred(notifyConnectionChange(
                     [S EXCEPT !.connected = TRUE,
                               !.connectPromise = Null,
                               !.sock[s].st = "open",
                               !.sock[s].opened = TRUE], "connected"), wthrow), s, wthrow)

\* onConnect: the fields are set and the listeners told before resolve(); a
\* continuation queued by a listener therefore runs before the calls that
\* await the attempt's promise.
onConnect(S, s, wthrow) ==
    ResolveAttempt(RunDeferred(notifyConnectionChange(
                     [S EXCEPT !.connected = TRUE,
                               !.connectPromise = Null,
                               !.reconnectAttempts = 0,
                               !.sock[s].st = "open",
                               !.sock[s].opened = TRUE], "connected"), wthrow), s, wthrow)

onError(S, s) ==
    LET S1 == IF ~S.connected
              THEN RejectAttempt([S EXCEPT !.connectPromise = Null], s, "transportError")
              ELSE S
    IN notifyConnectionChange([S1 EXCEPT !.connected = FALSE, !.sock[s].st = "errored"],
                              "disconnected")

RejectPending(S) ==
    [S EXCEPT !.outcome = [c \in CallIds |->
                             IF c \in S.pendingRequests
                             THEN Settle(S.outcome, c, Out("closed"))[c]
                             ELSE S.outcome[c]],
              !.pendingRequests = {}]

\* Mutant of onClose: pending requests are left alone.
onCloseKeepPending(S, s) ==
    LET wasConnected == S.connected
        S1 == notifyConnectionChange([S EXCEPT !.connected = FALSE,
                                               !.connectPromise = Null,
                                               !.sock[s].st = "closed"], "disconnected")
    IN IF wasConnected /\ ~S.isDestroyed THEN scheduleReconnect(S1) ELSE S1

onClose(S, s) ==
    LET wasConnected == S.connected
        S1 == RejectPending(notifyConnectionChange(
                              [S EXCEPT !.connected = FALSE,
                                        !.connectPromise = Null,
                                        !.sock[s].st = "closed"], "disconnected"))
    IN IF wasConnected /\ ~S.isDestroyed THEN scheduleReconnect(S1) ELSE S1

onConnectTimeout(S, s) ==
    LET S1 == [S EXCEPT !.sock[s].timer = FALSE] IN
    IF ~S.connected
    THEN RejectAttempt([S1 EXCEPT !.connectPromise = Null], s, "connectTimeout")
    ELSE S1

\* The callback of the retry timer armed by scheduleReconnect().
onRetryTimer(S) ==
    LET S0 == [S EXCEPT !.reconnectTimer = Null, !.retryTimers = @ - 1] IN
    IF S0.isDestroyed THEN S0
    ELSE LET S1 == ensureConnected(S0)
             a == Awaited(S0, S1)
         IN IF a = Null THEN S1 ELSE [S1 EXCEPT !.retryWait = @ \cup {a}]

DestroySocket(S) ==
    IF S.socket # Null /\ ~Destroyed(S, S.socket)
    THEN [S EXCEPT !.sock[S.socket].st = "closing"]
    ELSE S

\* if (this.reconnectTimer) { clearTimeout(this.reconnectTimer); this.reconnectTimer = null }
ClearRetryTimer(S) ==
    IF S.reconnectTimer # Null
    THEN [S EXCEPT !.reconnectTimer = Null, !.retryTimers = @ - 1]
    ELSE S

\* Mutant of reconnect: the armed retry timer is left alone.
reconnectKeepTimer(S) ==
    ensureConnected([DestroySocket(S) EXCEPT !.connected = FALSE,
                                             !.connectPromise = Null,
                                             !.reconnectAttempts = 0])

reconnect(S) ==
    ensureConnected(ClearRetryTimer([DestroySocket(S) EXCEPT !.connected = FALSE,
                                                             !.connectPromise = Null,
                                                             !.reconnectAttempts = 0]))

\* Mutant of MatchPending: responses are taken to arrive in request order.
MatchPendingFifo(id, pend) ==
    IF pend = {} THEN Null ELSE CHOOSE c \in pend : \A d \in pend : c <= d

\* pendingRequests.get(response.id): the call a response line settles.
MatchPending(id, pend) == IF id \in pend THEN id ELSE Null

\* Mutant of processBuffer: the matched entry is not deleted.
processBufferKeepEntry(S, line) ==
    LET c == MatchPending(line.id, S.pendingRequests) IN
    IF c = Null THEN S
    ELSE IF ~line.ok THEN [S EXCEPT !.outcome = Settle(@, c, Out("rpcError"))]
    ELSE IF line.result = "absent"
    THEN [S EXCEPT !.outcome = Settle(@, c, Out("empty"))]
    ELSE IF line.result = "bad" THEN S
    ELSE [S EXCEPT !.outcome = Settle(@, c, [kind |-> "value", val |-> line.val])]

\* One complete line of the receive buffer.
processBuffer(S, line) ==
    LET c == MatchPending(line.id, S.pendingRequests) IN
    IF c = Null THEN S
    ELSE LET S1 == [S EXCEPT !.pendingRequests = @ \ {c},
                             !.callTimer = @ \ {c}]
         IN IF ~line.ok THEN [S1 EXCEPT !.outcome = Settle(@, c, Out("rpcError"))]
            ELSE IF line.result = "absent"
            THEN [S1 EXCEPT !.outcome = Settle(@, c, Out("empty"))]
            ELSE IF line.result = "bad" THEN S1   \* decrypt throws, caught
            ELSE [S1 EXCEPT !.outcome =
                      Settle(@, c, [kind |-> "value", val |-> line.val])]

onData(S, s, line) ==
    processBuffer([S EXCEPT !.unanswered[s] = @ \ {line.id}], line)

\* Mutant of onCallTimeout: the timeout clears the whole pending map.
onCallTimeoutClearAll(S, c) ==
    [S EXCEPT !.callTimer = @ \ {c},
              !.pendingRequests = {},
              !.outcome = Settle(@, c, Out("timeout"))]

\* Mutant of onCallTimeout: the pending entry is not deleted.
onCallTimeoutKeepEntry(S, c) ==
    [S EXCEPT !.callTimer = @ \ {c},
              !.outcome = Settle(@, c, Out("timeout"))]

onCallTimeout(S, c) ==
    [S EXCEPT !.callTimer = @ \ {c},
              !.pendingRequests = @ \ {c},
              !.outcome = Settle(@, c, Out("timeout"))]

\* onConnectionChange(listener): the listener is appended.
onConnectionChange(S, l) == [S EXCEPT !.connectionListeners = Append(@, l)]

\* The function onConnectionChange returned: every entry that is l is removed.
unsubscribe(S, l) ==
    [S EXCEPT !.connectionListeners = SelectSeq(@, LAMBDA x : x # l)]

\* Mutant of destroy: the armed retry timer is left alone.
destroyKeepRetryTimer(S) ==
    DestroySocket([S EXCEPT
                        !.isDestroyed = TRUE,
                        !.callTimer = @ \ S.pendingRequests,
                        !.outcome = [c \in CallIds |->
                                       IF c \in S.pendingRequests
                                       THEN Settle(S.outcome, c, Out("clientDestroyed"))[c]
                                       ELSE S.outcome[c]],
                        !.pendingRequests = {}])

destroy(S) ==
    LET S1 == [ClearRetryTimer(S) EXCEPT
                        !.isDestroyed = TRUE,
                        !.callTimer = @ \ S.pendingRequests,
                        !.outcome = [c \in CallIds |->
                                       IF c \in S.pendingRequests
                                       THEN Settle(S.outcome, c, Out("clientDestroyed"))[c]
                                       ELSE S.outcome[c]],
                        !.pendingRequests = {}]
    IN DestroySocket(S1)

\* ------------------------------------------------------------- the peer
\* The response line the peer writes for request id: its own result.
ResponseLines(s) ==
    {[id |-> c, ok |-> o, result |-> r, val |-> c] :
        c \in unanswered[s], o \in BOOLEAN, r \in {"value", "absent", "bad"}}

\* ------------------------------------------------------------ DhtServer
\* The id 'unknown' of a response to a line that could not be handled: not
\* the id of any request.
UnknownId == 0

\* The state of one server connection as a record.
SrvState ==
    [open |-> srvOpen, buffer |-> srvBuffer, pending |-> srvPending,
     out |-> srvOut, req |-> srvReq, nReqs |-> nReqs]

\* Mutant of handleRequest: no try/catch, so a failure reaches the catch of
\* handleConnection, which answers with the id 'unknown'.
handleRequestNoCatch(line, h) ==
    IF line.decryptable /\ h = "returns"
    THEN [id |-> line.id, ok |-> TRUE, result |-> "encrypted", error |-> "absent"]
    ELSE [id |-> UnknownId, ok |-> FALSE, result |-> "absent", error |-> "message"]

\* handleRequest: decrypt, call the handler (h: it "returns" or "throws"),
\* encrypt; any failure is turned into an error response with the request's id.
handleRequest(line, h) ==
    IF line.decryptable /\ h = "returns"
    THEN [id |-> line.id, ok |-> TRUE, result |-> "encrypted", error |-> "absent"]
    ELSE [id |-> line.id, ok |-> FALSE, result |-> "absent", error |-> "message"]

\* The response of the catch block of handleConnection.
ParseErrorResponse == [id |-> UnknownId, ok |-> FALSE, result |-> "absent", error |-> "message"]

\* socket.write(line): nothing reaches the peer on a closed socket.
srvWrite(V, resp) == IF V.open THEN [V EXCEPT !.out = Append(@, resp)] ELSE V

\* `await handleRequest(request)` has finished with h for the request of
\* `line`: the response is written.
srvRespond(V, line, h) ==
    LET V1 == srvWrite(V, handleRequest(line, h)) IN
    [V1 EXCEPT !.req[line.id] =
        IF ~V.open THEN "lost"
        ELSE IF ~line.decryptable THEN "undecryptable"
        ELSE IF h = "returns" THEN "returned" ELSE "threw"]

\* The while loop of the 'data' handler, from the top: lines are taken off
\* the shared buffer one by one until it is empty or a handler has to be
\* awaited across tasks (handler = "later").  A write that throws on a closed
\* socket (wthrow) ends the invocation.
RECURSIVE parseLoop(_, _)
parseLoop(V, wthrow) ==
    IF V.buffer = <<>> THEN V
    ELSE LET line == Head(V.buffer)
             V1 == [V EXCEPT !.buffer = Tail(@)]
         IN CASE line.kind = "blank" -> parseLoop(V1, wthrow)
              [] line.kind = "malformed" ->
                    IF ~V1.open /\ wthrow THEN V1
                    ELSE parseLoop(srvWrite(V1, ParseErrorResponse), wthrow)
              [] line.decryptable /\ line.handler = "later" ->
                    [V1 EXCEPT !.pending = @ \cup {line.id}, !.req[line.id] = "running"]
              [] OTHER ->
                    IF ~V1.open /\ wthrow THEN srvRespond(V1, line, line.handler)
                    ELSE parseLoop(srvRespond(V1, line, line.handler), wthrow)

\* socket.on('data'): the chunk's lines join the buffer and the loop runs.
srvOnData(V, lines, wthrow) ==
    parseLoop([V EXCEPT !.buffer = @ \o lines,
                        !.nReqs = @ + Len(SelectSeq(lines, LAMBDA l : l.kind # "blank")),
                        !.req = [r \in ReqIds |->
                                   IF \E i \in 1..Len(lines) :
                                        lines[i].kind = "request" /\ lines[i].id = r
                                   THEN "buffered" ELSE @[r]]], wthrow)

\* Mutant of srvOnHandlerDone: the invocation returns after its response
\* instead of going on with its loop.
srvOnHandlerDoneNoResume(V, r, h, wthrow) ==
    srvRespond([V EXCEPT !.pending = @ \ {r}],
               [kind |-> "request", id |-> r, decryptable |-> TRUE, handler |-> "later"], h)

\* The handler awaited for request r settles with h: the invocation of the
\* 'data' handler that awaited it writes the response and goes on with its loop.
srvOnHandlerDone(V, r, h, wthrow) ==
    LET line == [kind |-> "request", id |-> r, decryptable |-> TRUE, handler |-> "later"]
        V1 == srvRespond([V EXCEPT !.pending = @ \ {r}], line, h)
    IN IF ~V.open /\ wthrow THEN V1 ELSE parseLoop(V1, wthrow)

\* --------------------------------------------------------- state machine
Ev(t, s, c) == [type |-> t, s |-> s, c |-> c]
NoEvent == Ev("other", Null, Null)

\* Forget sockets nothing refers to any more, and what a closed socket was.
Collect(S) ==
    [S EXCEPT !.sock = [s \in Slots |->
                          IF Reusable(S, s) THEN DeadSock
                          ELSE IF S.sock[s].st = "closed"
                          THEN [S.sock[s] EXCEPT !.opened = FALSE]
                          ELSE S.sock[s]],
              !.unanswered = [s \in Slots |-> IF Reusable(S, s) THEN {} ELSE S.unanswered[s]]]

Commit(S0, e) ==
    LET S == Collect(S0)
        armed == reconnectTimer = Null /\ S.reconnectTimer # Null
        started == \E s \in Slots : S0.sock[s].promise = "pending" /\ sock[s].promise # "pending"
        entered == getConnectionStateOf(S) = "connected"
                   /\ getConnectionState # "connected"
    IN /\ connected' = S.connected
       /\ connectPromise' = S.connectPromise
       /\ socket' = S.socket
       /\ sock' = S.sock
       /\ waiters' = S.waiters
       /\ retryWait' = S.retryWait
       /\ pendingRequests' = S.pendingRequests
       /\ callTimer' = S.callTimer
       /\ outcome' = S.outcome
       /\ nCalls' = S.nCalls
       /\ nAttempts' = IF started THEN Min(nAttempts + 1, MaxAttempts) ELSE nAttempts
       /\ unanswered' = S.unanswered
       /\ reconnectAttempts' = S.reconnectAttempts
       /\ reconnectTimer' = S.reconnectTimer
       /\ retryTimers' = S.retryTimers
       /\ isDestroyed' = S.isDestroyed
       /\ connectionListeners' = S.connectionListeners
       /\ heard' = S.heard
       /\ notified' = IF S.heard # <<>> THEN S.heard[Len(S.heard)].state ELSE notified
       /\ written' = S.written
       /\ ev' = IF e.type \in {"data", "callTimeout", "reconnect"} THEN e ELSE NoEvent
       /\ retriesSince' = IF e.type \in {"open", "reconnect"} THEN 0
                          ELSE IF armed THEN retriesSince + 1
                          ELSE retriesSince
       /\ freshConn' = IF entered THEN TRUE
                       ELSE IF armed THEN FALSE
                       ELSE freshConn
       /\ priorRetries' = IF entered THEN retriesSince >= 2
                          ELSE IF armed /\ ~freshConn THEN FALSE
                          ELSE priorRetries
       /\ gaveUp' = IF e.type = "reconnect" \/ armed THEN FALSE ELSE S.gaveUp
       /\ UNCHANGED <<srvVars, dmnVars, codVars, rdrVars>>

\* An 'error' event is being followed by its 'close' event.
Emitting == \E s \in Slots : sock[s].st = "errored"

\* The paths of the model: a path is a sequence of segments, a segment a
\* sequence of characters, as the string tests of the code need them.
P == <<"p">>
PX == <<"p", "x">>
E == <<"e">>
Up == <<".", ".">>

NoRoot == [set |-> FALSE, path |-> <<>>]
Roots == {NoRoot, [set |-> TRUE, path |-> <<P>>]}

NoProc == [state |-> "none", stdin |-> FALSE, outputBuffer |-> <<>>,
           sessionId |-> Null, count |-> 0]
NoResult == [op |-> "none", sid |-> Null, ok |-> FALSE, clear |-> FALSE,
             messages |-> <<>>, wrote |-> FALSE, directory |-> <<>>,
             listed |-> {}, storeCalled |-> FALSE]

\* new Daemon(options): no session, rootDir resolved from the options.
DaemonInit(r) ==
    /\ rootDir = r
    /\ sessions = [i \in Sids |-> Null]
    /\ proc = [p \in ProcIds |-> NoProc]
    /\ nProcs = 0
    /\ isShuttingDown = FALSE
    /\ dhtWrites = 0
    /\ returned = [p \in ProcIds |-> {}]
    /\ evicted = [p \in ProcIds |-> {}]
    /\ dres = NoResult

InitClientServer ==
    /\ connected = FALSE
    /\ connectPromise = Null
    /\ socket = Null
    /\ sock = [s \in Slots |-> DeadSock]
    /\ waiters = [s \in Slots |-> <<>>]
    /\ retryWait = {}
    /\ pendingRequests = {}
    /\ callTimer = {}
    /\ outcome = [c \in CallIds |-> NoOutcome]
    /\ nCalls = 0
    /\ nAttempts = 0
    /\ unanswered = [s \in Slots |-> {}]
    /\ reconnectAttempts = 0
    /\ reconnectTimer = Null
    /\ retryTimers = 0
    /\ isDestroyed = FALSE
    /\ connectionListeners = <<>>
    /\ heard = <<>>
    /\ notified = "none"
    /\ written = <<>>
    /\ ev = NoEvent
    /\ retriesSince = 0
    /\ freshConn = FALSE
    /\ priorRetries = FALSE
    /\ gaveUp = FALSE
    /\ srvOpen = TRUE
    /\ srvBuffer = <<>>
    /\ srvPending = {}
    /\ srvOut = <<>>
    /\ srvReq = [r \in ReqIds |-> "none"]
    /\ nReqs = 0

Init ==
    /\ InitClientServer
    /\ DaemonInit(NoRoot)
    /\ CodecInit(SharedKey, SharedKey)
    /\ ReaderInit("client")

\* The daemon specifications start from a daemon with or without a root.
InitDaemon ==
    /\ InitClientServer
    /\ CodecInit(SharedKey, SharedKey)
    /\ ReaderInit("client")
    /\ \E r \in Roots : DaemonInit(r)

\* The codec specification starts from any two valid keys.
InitCodec ==
    /\ InitClientServer
    /\ DaemonInit(NoRoot)
    /\ ReaderInit("client")
    /\ \E kc \in Keys, kd \in Keys : CodecInit(kc, kd)

\* The reader specification starts with a reader of either side.
InitReader ==
    /\ InitClientServer
    /\ DaemonInit(NoRoot)
    /\ CodecInit(SharedKey, SharedKey)
    /\ \E side \in {"client", "server"} : ReaderInit(side)

\* A step that would start a connect attempt needs a free slot; the general
\* specification also bounds the number of attempts of one behaviour.
CanStart(S) == EnsurePath(S) = "start" => FreeSlots(S) # {}
Budget(S) == EnsurePath(S) = "start" => nAttempts < MaxAttempts

Call ==
    /\ ~Emitting
    /\ nCalls < MaxCalls
    /\ CanStart(State)
    /\ \E wthrow \in BOOLEAN : Commit(call(State, wthrow), Ev("call", Null, nCalls + 1))

UserEnsureConnected ==
    /\ ~Emitting
    /\ EnsurePath(State) = "start"
    /\ FreeSlots(State) # {}
    /\ Commit(ensureConnected(State), Ev("ensureConnected", Null, Null))

Reconnect ==
    /\ ~Emitting
    /\ ~isDestroyed
    /\ FreeSlots(DestroySocket(State)) # {}
    /\ Commit(reconnect(State), Ev("reconnect", socket, reconnectTimer))

Destroy ==
    /\ ~Emitting
    /\ ~isDestroyed
    /\ Commit(destroy(State), Ev("destroy", Null, Null))

\* The calls the listeners make when told 'connected' stay within MaxCalls,
\* and one that has to start a connect attempt finds a free slot.
ListenerRoom(s) ==
    LET n == Len(SelectSeq(connectionListeners, LAMBDA l : l.calls)) IN
    n > 0 => /\ nCalls + n <= MaxCalls
             /\ socket = s \/ FreeSlots(State) # {}

SocketOpen(s) ==
    /\ ~Emitting
    /\ sock[s].st = "connecting"
    /\ ListenerRoom(s)
    /\ \E wthrow \in BOOLEAN : Commit(onConnect(State, s, wthrow), Ev("open", s, Null))

SocketError(s) ==
    /\ ~Emitting
    /\ sock[s].st \in {"connecting", "open"}
    /\ Commit(onError(State, s), Ev("error", s, Null))

SocketClose(s) ==
    /\ \/ sock[s].st = "errored"
       \/ ~Emitting /\ sock[s].st \in {"open", "closing"}
    /\ Commit(onClose(State, s), Ev("close", s, Null))

SocketData(s) ==
    /\ ~Emitting
    /\ sock[s].st = "open"
    /\ \E line \in ResponseLines(s) : Commit(onData(State, s, line), Ev("data", s, line.id))

ConnectTimeout(s) ==
    /\ ~Emitting
    /\ sock[s].timer
    /\ Commit(onConnectTimeout(State, s), Ev("connectTimeout", s, Null))

CallTimeout(c) ==
    /\ ~Emitting
    /\ c \in callTimer
    /\ Commit(onCallTimeout(State, c), Ev("callTimeout", Null, c))

RetryTimer ==
    /\ ~Emitting
    /\ retryTimers > 0
    /\ CanStart([State EXCEPT !.reconnectTimer = Null])
    /\ Commit(onRetryTimer(State), Ev("retryTimer", Null, Null))

\* A listener is a function of the caller; it may be one that throws.
Listeners == [id : ListenerIds, throws : BOOLEAN, calls : {FALSE}]

\* The listener of the chat client: told 'connected', it spawns a session.
ChatListener == [id |-> 1, throws |-> FALSE, calls |-> TRUE]


OnConnectionChange ==
    /\ ~Emitting
    /\ Len(connectionListeners) < MaxListeners
    /\ \E l \in Listeners :
          Commit(onConnectionChange(State, l), Ev("onConnectionChange", Null, Null))

Unsubscribe ==
    /\ ~Emitting
    /\ \E i \in 1..Len(connectionListeners) :
          Commit(unsubscribe(State, connectionListeners[i]), Ev("unsubscribe", Null, Null))

SrvCommit(V) ==
    /\ srvOpen' = V.open
    /\ srvBuffer' = V.buffer
    /\ srvPending' = V.pending
    /\ srvOut' = V.out
    /\ srvReq' = V.req
    /\ nReqs' = V.nReqs
    /\ UNCHANGED <<cliVars, dmnVars, codVars, rdrVars>>

\* The lines a peer may send: blank, unparseable, or a request, whose params
\* decrypt or not and whose handler returns, throws, or settles in a later task.
LineKinds ==
    {[kind |-> "blank", decryptable |-> FALSE, handler |-> "throws"],
     [kind |-> "malformed", decryptable |-> FALSE, handler |-> "throws"]}
    \cup [kind : {"request"}, decryptable : BOOLEAN, handler : {"returns", "throws", "later"}]

\* A chunk of one or two lines; its non-blank lines are numbered on, and the
\* number of a request is its (fresh) id.
RECURSIVE WithIds(_, _)
WithIds(ks, n) ==
    IF ks = <<>> THEN <<>>
    ELSE LET k == Head(ks)
             m == IF k.kind # "blank" THEN n + 1 ELSE n
         IN <<[kind |-> k.kind, id |-> IF k.kind = "request" THEN m ELSE UnknownId,
               decryptable |-> k.decryptable, handler |-> k.handler]>>
            \o WithIds(Tail(ks), m)

Chunks == {<<k>> : k \in LineKinds} \cup {<<k1, k2>> : k1 \in LineKinds, k2 \in LineKinds}

ServerData ==
    /\ srvOpen
    /\ \E ks \in Chunks, wthrow \in BOOLEAN :
          /\ nReqs + Len(SelectSeq(ks, LAMBDA k : k.kind # "blank")) <= MaxRequests
          /\ SrvCommit(srvOnData(SrvState, WithIds(ks, nReqs), wthrow))

ServerHandlerDone ==
    \E r \in srvPending, h \in {"returns", "throws"}, wthrow \in BOOLEAN :
        SrvCommit(srvOnHandlerDone(SrvState, r, h, wthrow))

\* The peer goes away.
ServerClose ==
    /\ srvOpen
    /\ SrvCommit([SrvState EXCEPT !.open = FALSE])

NextServer ==
    \/ ServerData
    \/ ServerHandlerDone
    \/ ServerClose

SpecServer == Init /\ [][NextServer]_vars

\* ------------------------------------------------------------ the Daemon

\* path.resolve on an absolute path: '..' steps back, never above the root.
RECURSIVE ResolveFrom(_, _)
ResolveFrom(acc, segs) ==
    IF segs = <<>> THEN acc
    ELSE IF Head(segs) = Up
         THEN ResolveFrom(IF acc = <<>> THEN <<>> ELSE SubSeq(acc, 1, Len(acc) - 1),
                          Tail(segs))
         ELSE ResolveFrom(Append(acc, Head(segs)), Tail(segs))

resolve(segs) == ResolveFrom(<<>>, segs)

\* The string of a resolved path: "/" for the root, "/a/b" otherwise.
RECURSIVE JoinSegs(_)
JoinSegs(segs) ==
    IF segs = <<>> THEN <<>> ELSE <<"/">> \o Head(segs) \o JoinSegs(Tail(segs))

PathString(segs) == IF segs = <<>> THEN <<"/">> ELSE JoinSegs(segs)

\* String.prototype.startsWith.
startsWith(str, prefix) ==
    /\ Len(prefix) <= Len(str)
    /\ SubSeq(str, 1, Len(prefix)) = prefix

\* The Daemon's fields as one value.
DmnState ==
    [rootDir |-> rootDir, sessions |-> sessions, proc |-> proc, nProcs |-> nProcs,
     isShuttingDown |-> isShuttingDown, dhtWrites |-> dhtWrites,
     returned |-> returned, evicted |-> evicted, result |-> NoResult]

\* The test spawnSession applies to the requested directory when a root is set.
Allowed(D, directory) ==
    startsWith(PathString(resolve(directory)), PathString(D.rootDir.path))

\* syncSessionStateToDht as it would be with no shutdown test.
syncSessionStateToDhtAlways(D) ==
    [D EXCEPT !.dhtWrites = @ + 1, !.result.storeCalled = TRUE]

\* syncSessionStateToDht: nothing during shutdown; otherwise storeSessionState
\* is called and not awaited, and its mutablePut is in flight until it settles.
syncSessionStateToDht(D) ==
    IF D.isShuttingDown THEN D
    ELSE [D EXCEPT !.dhtWrites = @ + 1, !.result.storeCalled = TRUE]

\* A mutablePut in flight settles, with success or failure; storeSessionState
\* logs either.
onStoreSettled(D, failed) ==
    [D EXCEPT !.dhtWrites = @ - 1, !.result = NoResult]

\* spawnSession: the root-directory test, then spawnClaudeSession, which
\* returns a running child, returns a child that failed to start (it emits
\* 'error' and never 'exit'), or throws.
spawnSession(D, sid, directory, spawned) ==
    LET res == [NoResult EXCEPT !.op = "spawn", !.sid = sid, !.directory = directory]
        p == D.nProcs + 1
    IN IF D.rootDir.set /\ ~Allowed(D, directory) THEN [D EXCEPT !.result = res]
       ELSE IF spawned = "throws" THEN [D EXCEPT !.result = res]
       ELSE syncSessionStateToDht(
              [D EXCEPT !.nProcs = p,
                        !.proc[p] = [state |-> IF spawned = "running" THEN "running" ELSE "failed",
                                     stdin |-> spawned = "running",
                                     outputBuffer |-> <<>>,
                                     sessionId |-> sid,
                                     count |-> 0],
                        !.sessions[sid] = p,
                        !.result = [res EXCEPT !.ok = TRUE]])

\* sendMessage as it would be without the lookup's not-found branch.
sendMessageUnchecked(D, sid, wthrow) ==
    LET res == [NoResult EXCEPT !.op = "send", !.sid = sid]
        p == D.sessions[sid]
    IN IF p = Null THEN [D EXCEPT !.result = [res EXCEPT !.ok = TRUE]]
       ELSE IF ~D.proc[p].stdin THEN [D EXCEPT !.result = [res EXCEPT !.ok = TRUE]]
       ELSE IF wthrow THEN [D EXCEPT !.result = res]
       ELSE [D EXCEPT !.result = [res EXCEPT !.ok = TRUE, !.wrote = TRUE]]

\* sendMessage: the closure of getClaudeSession writes only to a stdin that
\* exists and is not destroyed; a write that throws is caught.
sendMessage(D, sid, wthrow) ==
    LET res == [NoResult EXCEPT !.op = "send", !.sid = sid]
        p == D.sessions[sid]
    IN IF p = Null THEN [D EXCEPT !.result = res]
       ELSE IF ~D.proc[p].stdin THEN [D EXCEPT !.result = [res EXCEPT !.ok = TRUE]]
       ELSE IF wthrow THEN [D EXCEPT !.result = res]
       ELSE [D EXCEPT !.result = [res EXCEPT !.ok = TRUE, !.wrote = TRUE]]

\* The set of the elements of a sequence.
Range(q) == {q[i] : i \in 1..Len(q)}

\* getOutput as it would be if the snapshot were taken before the newest
\* append and the buffer emptied after it.
getOutputStale(D, sid, clear) ==
    LET res == [NoResult EXCEPT !.op = "poll", !.sid = sid, !.clear = clear]
        p == D.sessions[sid]
    IN IF p = Null THEN [D EXCEPT !.result = res]
       ELSE LET b == D.proc[p].outputBuffer
                messages == IF b = <<>> THEN b ELSE SubSeq(b, 1, Len(b) - 1)
            IN [D EXCEPT !.proc[p].outputBuffer = IF clear THEN <<>> ELSE @,
                         !.returned[p] = IF clear THEN @ \cup Range(messages) ELSE @,
                         !.result = [res EXCEPT !.ok = TRUE, !.messages = messages]]

\* getOutput: a copy of the buffer; the buffer is replaced by an empty one
\* when the poll clears.
getOutputKeepBuffer(D, sid, clear) ==
    LET res == [NoResult EXCEPT !.op = "poll", !.sid = sid, !.clear = clear]
        p == D.sessions[sid]
    IN IF p = Null THEN [D EXCEPT !.result = res]
       ELSE LET messages == D.proc[p].outputBuffer
            IN [D EXCEPT !.returned[p] = IF clear THEN @ \cup Range(messages) ELSE @,
                         !.result = [res EXCEPT !.ok = TRUE, !.messages = messages]]

getOutput(D, sid, clear) ==
    LET res == [NoResult EXCEPT !.op = "poll", !.sid = sid, !.clear = clear]
        p == D.sessions[sid]
    IN IF p = Null THEN [D EXCEPT !.result = res]
       ELSE LET messages == D.proc[p].outputBuffer
            IN [D EXCEPT !.proc[p].outputBuffer = IF clear THEN <<>> ELSE @,
                         !.returned[p] = IF clear THEN @ \cup Range(messages) ELSE @,
                         !.result = [res EXCEPT !.ok = TRUE, !.messages = messages]]

\* stopSession as it would be if the entry were left for the 'exit' handler.
stopSessionDeferred(D, sid) ==
    LET res == [NoResult EXCEPT !.op = "stop", !.sid = sid]
        p == D.sessions[sid]
    IN IF p = Null THEN [D EXCEPT !.result = res]
       ELSE syncSessionStateToDht(
              [D EXCEPT !.proc[p].state = IF @ = "running" THEN "killed" ELSE @,
                        !.result = [res EXCEPT !.ok = TRUE]])

\* stopSession: SIGTERM to the process, the entry deleted at once; the process
\* exits in a later task.
stopSession(D, sid) ==
    LET res == [NoResult EXCEPT !.op = "stop", !.sid = sid]
        p == D.sessions[sid]
    IN IF p = Null THEN [D EXCEPT !.result = res]
       ELSE syncSessionStateToDht(
              [D EXCEPT !.proc[p].state = IF @ = "running" THEN "killed" ELSE @,
                        !.sessions[sid] = Null,
                        !.result = [res EXCEPT !.ok = TRUE]])

\* listSessions: one entry per tracked session.
listSessions(D) ==
    [D EXCEPT !.result =
        [NoResult EXCEPT !.op = "list", !.ok = TRUE,
                         !.listed = {[sessionId |-> D.proc[D.sessions[sid]].sessionId,
                                      pid |-> D.sessions[sid]] :
                                        sid \in {i \in Sids : D.sessions[i] # Null}}]]

\* Daemon.stop: the shutdown flag, SIGTERM to the process of every tracked
\* session, the registry cleared; DhtServer.stop is then awaited.
daemonStop(D) ==
    [D EXCEPT !.isShuttingDown = TRUE,
              !.proc = [p \in ProcIds |->
                          IF (\E sid \in Sids : D.sessions[sid] = p) /\ D.proc[p].state = "running"
                          THEN [D.proc[p] EXCEPT !.state = "killed"]
                          ELSE D.proc[p]],
              !.sessions = [sid \in Sids |-> Null],
              !.result = [NoResult EXCEPT !.op = "shutdown"]]

\* The output callback of process p: push, then keep the newest OutputKeep
\* events once the buffer is longer than OutputCap.
onOutputNoLimit(D, p) ==
    LET e == D.proc[p].count + 1
        pushed == Append(D.proc[p].outputBuffer, e)
    IN [D EXCEPT !.proc[p].count = e,
                 !.proc[p].outputBuffer = pushed,
                 !.result = NoResult]

onOutput(D, p) ==
    LET e == D.proc[p].count + 1
        pushed == Append(D.proc[p].outputBuffer, e)
        over == Len(pushed) > OutputCap
        cut == Len(pushed) - OutputKeep
    IN [D EXCEPT !.proc[p].count = e,
                 !.proc[p].outputBuffer =
                     IF over THEN SubSeq(pushed, cut + 1, Len(pushed)) ELSE pushed,
                 !.evicted[p] = IF over THEN @ \cup Range(SubSeq(pushed, 1, cut)) ELSE @,
                 !.result = NoResult]

\* The 'exit' handler of process p deletes the entry of the session id the
\* process was spawned under.
onExit(D, p) ==
    syncSessionStateToDht(
        [D EXCEPT !.proc[p].state = "exited",
                  !.proc[p].stdin = FALSE,
                  !.sessions[D.proc[p].sessionId] = Null,
                  !.result = [NoResult EXCEPT !.op = "exit"]])

\* The stdin pipe of process p is destroyed (the child closed it).
onStdinClosed(D, p) ==
    [D EXCEPT !.proc[p].stdin = FALSE,
              !.result = NoResult]

DmnCommit(D) ==
    /\ rootDir' = D.rootDir
    /\ sessions' = D.sessions
    /\ proc' = D.proc
    /\ nProcs' = D.nProcs
    /\ isShuttingDown' = D.isShuttingDown
    /\ dhtWrites' = D.dhtWrites
    /\ returned' = D.returned
    /\ evicted' = D.evicted
    /\ dres' = D.result
    /\ UNCHANGED <<cliVars, srvVars, codVars, rdrVars>>

\* The directories a spawn request may name.
Dirs == {<<P>>, <<P, E>>, <<PX>>, <<P, Up, E>>}

\* The number of output events the processes 1..n have emitted.
RECURSIVE EventsUpTo(_, _)
EventsUpTo(D, n) == IF n = 0 THEN 0 ELSE D.proc[n].count + EventsUpTo(D, n - 1)

Events(D) == EventsUpTo(D, MaxProcs)

SpawnSession ==
    /\ nProcs < MaxProcs
    /\ \E sid \in Sids, d \in Dirs, spawned \in {"running", "failed", "throws"} :
          DmnCommit(spawnSession(DmnState, sid, d, spawned))

SendMessage ==
    \E sid \in Sids, wthrow \in BOOLEAN : DmnCommit(sendMessage(DmnState, sid, wthrow))

GetOutput ==
    \E sid \in Sids, clear \in BOOLEAN : DmnCommit(getOutput(DmnState, sid, clear))

StopSession ==
    \E sid \in Sids : DmnCommit(stopSession(DmnState, sid))

ListSessions == DmnCommit(listSessions(DmnState))

\* SIGINT or SIGTERM reaches the daemon.
DaemonStop == DmnCommit(daemonStop(DmnState))

StoreSettled ==
    /\ dhtWrites > 0
    /\ \E failed \in BOOLEAN : DmnCommit(onStoreSettled(DmnState, failed))

ProcessOutput(p) ==
    /\ proc[p].state \in {"running", "killed"}
    /\ DmnCommit(onOutput(DmnState, p))

ProcessExit(p) ==
    /\ proc[p].state \in {"running", "killed"}
    /\ DmnCommit(onExit(DmnState, p))

ProcessStdinClosed(p) ==
    /\ proc[p].state \in {"running", "killed"}
    /\ proc[p].stdin
    /\ DmnCommit(onStdinClosed(DmnState, p))

\* The daemon's sessions, at most MaxProcs spawns and MaxEvents output events
\* in one behaviour.
NextDaemon ==
    \/ SpawnSession
    \/ SendMessage
    \/ GetOutput
    \/ StopSession
    \/ ListSessions
    \/ \E p \in ProcIds : Events(DmnState) < MaxEvents /\ ProcessOutput(p)
    \/ \E p \in ProcIds : ProcessExit(p)
    \/ \E p \in ProcIds : ProcessStdinClosed(p)

SpecDaemon == InitDaemon /\ [][NextDaemon]_vars

\* The registry over the daemon's life, shutdown and the writes to the
\* discovery store included, with at most MaxRegistryEvents output events.
NextRegistry ==
    \/ SpawnSession
    \/ SendMessage
    \/ GetOutput
    \/ StopSession
    \/ ListSessions
    \/ DaemonStop
    \/ StoreSettled
    \/ \E p \in ProcIds : Events(DmnState) < MaxRegistryEvents /\ ProcessOutput(p)
    \/ \E p \in ProcIds : ProcessExit(p)

SpecRegistry == InitDaemon /\ [][NextRegistry]_vars

\* A burst of output: up to MaxBurst events per process, the peer polling only
\* while no clearing poll has returned anything yet, and then only next to an
\* empty or a full buffer.
PollNow ==
    \A sid \in Sids :
        sessions[sid] # Null =>
            LET p == sessions[sid]
                n == Len(proc[p].outputBuffer)
            IN /\ returned[p] = {}
               /\ n <= PollWindow \/ n >= OutputCap - PollWindow

NextBuffer ==
    \/ nProcs = 0 /\ SpawnSession
    \/ PollNow /\ GetOutput
    \/ \E p \in ProcIds : proc[p].count < MaxBurst /\ ProcessOutput(p)

SpecBuffer == InitDaemon /\ [][NextBuffer]_vars

\* The general specification: every operation, at most MaxAttempts connect
\* attempts in one behaviour.
Next ==
    \/ Budget(State) /\ Call
    \/ Budget(State) /\ UserEnsureConnected
    \/ nAttempts < MaxAttempts /\ Reconnect
    \/ Destroy
    \/ \E s \in Slots : SocketOpen(s)
    \/ \E s \in Slots : SocketError(s)
    \/ \E s \in Slots : SocketClose(s)
    \/ \E s \in Slots : SocketData(s)
    \/ \E s \in Slots : ConnectTimeout(s)
    \/ \E c \in CallIds : CallTimeout(c)
    \/ Budget(State) /\ RetryTimer

Spec == Init /\ [][Next]_vars

\* The connection lifecycle alone (no call() is made), with no bound on the
\* number of connect attempts: the retry counter runs through 0..10.
NextLifecycle ==
    \/ UserEnsureConnected
    \/ Reconnect
    \/ Destroy
    \/ \E s \in Slots : SocketOpen(s)
    \/ \E s \in Slots : SocketError(s)
    \/ \E s \in Slots : SocketClose(s)
    \/ \E s \in Slots : ConnectTimeout(s)
    \/ RetryTimer

SpecLifecycle == Init /\ [][NextLifecycle]_vars

\* The connection lifecycle with listeners registered and removed, at most
\* MaxAttempts connect attempts in one behaviour.
NextListeners ==
    \/ OnConnectionChange
    \/ Unsubscribe
    \/ Budget(State) /\ UserEnsureConnected
    \/ nAttempts < MaxAttempts /\ Reconnect
    \/ Destroy
    \/ \E s \in Slots : SocketOpen(s)
    \/ \E s \in Slots : SocketError(s)
    \/ \E s \in Slots : SocketClose(s)
    \/ \E s \in Slots : ConnectTimeout(s)
    \/ Budget(State) /\ RetryTimer

SpecListeners == Init /\ [][NextListeners]_vars

\* The chat client registers its listener (once).
RegisterChatListener ==
    /\ ~Emitting
    /\ \A i \in 1..Len(connectionListeners) : connectionListeners[i] # ChatListener
    /\ Commit(onConnectionChange(State, ChatListener), Ev("onConnectionChange", Null, Null))

\* The general specification with the chat client's listener.
NextOrder ==
    \/ RegisterChatListener
    \/ Next

SpecOrder == Init /\ [][NextOrder]_vars

\* The envelope texts a decrypt call may be handed: the text on the wire,
\* and texts cut short or changed in one byte on the way.
Damaged(b) ==
    {Take(b, k) : k \in {0, 1, MinBundle - 1, MinBundle, Len(b) - 1} \cap 0..Len(b)}
    \cup (IF Len(b) < MinBundle THEN {}
          ELSE {[b EXCEPT ![1] = 1],
                Take([b EXCEPT ![1] = 1], MinBundle - 1),
                [b EXCEPT ![2] = (@ + 1) % 256],
                [b EXCEPT ![Len(b) - TagLen] = (@ + 1) % 256],
                [b EXCEPT ![Len(b)] = (@ + 1) % 256]})

Arrivals ==
    {wire} \cup {toBase64(b) : b \in Damaged(fromBase64(wire))}
           \cup (IF wire = <<>> THEN {} ELSE {Take(wire, Len(wire) - 1)})

\* One side calls encrypt(data); the nonce is what randomBytes(12) returns.
EncryptCall(side) ==
    \E data \in Payloads, nonce \in Nonces :
        /\ wire' = IF side = "client" THEN clientEncrypt(KeyOf(side), data, nonce)
                   ELSE encrypt(KeyOf(side), data, nonce)
        /\ sealed' = [by |-> side, data |-> data, nonce |-> nonce]
        /\ opened' = NoOpened
        /\ UNCHANGED <<clientKey, daemonKey, cliVars, srvVars, dmnVars, rdrVars>>

\* One side calls decrypt on an envelope text it received.
DecryptCall(side) ==
    \E text \in Arrivals :
        /\ opened' = [(IF side = "client" THEN clientDecrypt(KeyOf(side), text)
                       ELSE decrypt(KeyOf(side), text))
                          EXCEPT !.by = side, !.text = text]
        /\ UNCHANGED <<clientKey, daemonKey, wire, sealed, cliVars, srvVars, dmnVars, rdrVars>>

NextCodec ==
    \/ \E side \in Codecs : EncryptCall(side)
    \/ \E side \in Codecs : DecryptCall(side)

SpecCodec == InitCodec /\ [][NextCodec]_vars

\* The chunks a connection may deliver: one to MaxChunk bytes.
ByteChunks == UNION {[1..n -> StreamBytes] : n \in 1..MaxChunk}

\* A chunk arrives on the reader's connection.
ReaderData ==
    \E chunk \in ByteChunks :
        /\ Len(rsent) + Len(chunk) <= MaxStream
        /\ LET r == IF rside = "client" THEN clientOnData(rbuf, chunk)
                    ELSE serverOnData(rbuf, chunk)
           IN  /\ rbuf' = r.buffer
               /\ rlines' = rlines \o r.lines
        /\ rsent' = rsent \o chunk
        /\ UNCHANGED <<rside, rconn, cliVars, srvVars, dmnVars, codVars>>

\* The connection ends and the next one begins. The client's handlers and
\* ensureConnected() leave this.buffer alone; the server's handleConnection
\* starts every connection with an empty buffer of its own.
ReaderNewConnection ==
    /\ rconn < MaxConnections
    /\ rconn' = rconn + 1
    /\ rsent' = <<>>
    /\ rlines' = <<>>
    /\ rbuf' = IF rside = "client" THEN rbuf ELSE <<>>
    /\ UNCHANGED <<rside, cliVars, srvVars, dmnVars, codVars>>

NextReader ==
    \/ ReaderData
    \/ ReaderNewConnection

SpecReader == InitReader /\ [][NextReader]_vars

\* ------------------------------------------------------------ properties

\* C1: a response settles only the call whose request id it carries, and a
\* call resolved with a value holds the result the peer produced for its own
\* request, whatever the arrival order of the responses.
C1_ResponseSettlesOwnCall ==
    /\ [](\A c \in CallIds : outcome[c].kind = "value" => outcome[c].val = c)
    /\ [][ev'.type = "data" =>
            \A d \in CallIds : d # ev'.c => outcome'[d] = outcome[d]]_vars

\* Both calls are resolved, the first one issued by the response that came last.
C1_Witness ==
    /\ ev.type = "data" /\ ev.c = 1
    /\ outcome[1].kind = "value"
    /\ outcome[2].kind = "value"

\* The step is the 'close' event of socket s.
ClosedNow(s) == sock[s].st \in {"open", "errored", "closing"} /\ sock'[s].st = "closed"

\* C2: the close of a socket that had opened fails every pending call with
\* the connection-closed error and empties the pending set; a call failed
\* that way is never resolved afterwards.
C2_LossFailsPending ==
    /\ [][(\E s \in Slots : ClosedNow(s) /\ sock[s].opened) =>
            /\ pendingRequests' = {}
            /\ \A c \in pendingRequests : outcome'[c].kind = "closed"]_vars
    /\ [][\A c \in CallIds :
            outcome[c].kind = "closed" => outcome'[c] = outcome[c]]_vars

\* Two calls were pending on the connection when its loss failed them.
C2_Witness ==
    /\ nCalls = 2
    /\ \A c \in CallIds : outcome[c].kind = "closed"
    /\ pendingRequests = {}

\* C3: the timeout of a pending call fails it with the timeout error and
\* removes its entry; a response that arrives with the id of no pending call
\* changes nothing of the client.
C3_TimeoutThenLateResponseDropped ==
    /\ [][(ev'.type = "callTimeout" /\ ev'.c \in pendingRequests) =>
            /\ outcome'[ev'.c].kind = "timeout"
            /\ ev'.c \notin pendingRequests']_vars
    /\ [][(ev'.type = "data" /\ ev'.c \notin pendingRequests) =>
            UNCHANGED <<connected, connectPromise, socket, sock, waiters,
                        retryWait, pendingRequests, callTimer, outcome,
                        reconnectAttempts, reconnectTimer, isDestroyed>>]_vars

\* The response of a call arrived after the call had timed out.
C3_Witness ==
    /\ ev.type = "data"
    /\ outcome[ev.c].kind = "timeout"

\* C4: a settled call has no pending entry and its outcome never changes.
C4_SettledOnce ==
    /\ [](\A c \in CallIds : outcome[c].kind # "none" => c \notin pendingRequests)
    /\ [][\A c \in CallIds :
            outcome[c].kind # "none" => outcome'[c] = outcome[c]]_vars

\* The timeout timer of a call fired after a connection close had failed it.
C4_Witness ==
    /\ ev.type = "callTimeout"
    /\ outcome[ev.c].kind = "closed"

\* C5: every call ends with a resolved value, a peer-reported error, a
\* timeout error or a connection-closed error.
C5_FourOutcomes ==
    \A c \in CallIds :
        outcome[c].kind \in {"none", "value", "empty", "rpcError", "timeout", "closed"}

\* An attempt is in flight: its promise is unsettled and its socket connecting.
InFlight == {s \in Slots : sock[s].promise = "pending" /\ sock[s].st = "connecting"}

\* C6: at most one connect attempt is in flight at any time.
C6_SingleFlight == Cardinality(InFlight) <= 1

Edges ==
    {<<"disconnected", "connecting">>, <<"connecting", "connected">>,
     <<"connecting", "disconnected">>, <<"connected", "disconnected">>}

\* C7: getConnectionState() changes only along the four edges of the state
\* machine.
C7_StateEdges ==
    [][getConnectionState' # getConnectionState =>
         <<getConnectionState, getConnectionState'>> \in Edges]_vars

\* C8: when the current connection, which had opened, is closed by the
\* transport (client not destroyed, fewer than 10 retries made), a retry
\* timer is armed afterwards.
C8_LossSchedulesRetry ==
    [][(/\ socket # Null
        /\ ClosedNow(socket)
        /\ sock[socket].opened
        /\ sock[socket].st \in {"open", "errored"}
        /\ ~isDestroyed
        /\ reconnectAttempts < maxReconnectAttempts)
       => reconnectTimer' # Null]_vars

\* The delays of the claim, by the number of retries already scheduled.
ExpectedDelay(k) ==
    CASE k = 0 -> 1000
      [] k = 1 -> 2000
      [] k = 2 -> 4000
      [] k = 3 -> 8000
      [] k = 4 -> 16000
      [] OTHER -> 30000

RetryScheduled == reconnectTimer = Null /\ reconnectTimer' # Null

\* C9: a retry scheduled after k retries since the last open or reconnect()
\* has the delay min(1000 * 2^k, 30000), and the counter goes up by one.
C9_BackoffDelay ==
    [][RetryScheduled =>
         /\ reconnectTimer' = ExpectedDelay(retriesSince)
         /\ reconnectTimer' = Min(1000 * (2 ^ retriesSince), 30000)
         /\ reconnectAttempts' = reconnectAttempts + 1]_vars

\* The tenth retry in a row is armed, at the capped delay.
C9_Witness ==
    /\ reconnectTimer = 30000
    /\ retriesSince = 10

\* C10: entering connected resets the attempt counter, and the first retry
\* scheduled after that has a delay of 1000 ms.
C10_ResetOnConnected ==
    /\ [][(getConnectionState' = "connected" /\ getConnectionState # "connected")
            => reconnectAttempts' = 0]_vars
    /\ [][(freshConn /\ RetryScheduled) => reconnectTimer' = 1000]_vars

\* A success that two or more retries preceded was lost and its first retry
\* is armed.
C10_Witness ==
    /\ priorRetries
    /\ ~freshConn
    /\ retriesSince = 1
    /\ reconnectTimer = 1000

\* C11: the attempt counter stays within 0..10, at most one retry timer is
\* armed, no retry is scheduled while the counter is at 10, and once
\* scheduleReconnect() has given up at the cap no retry is scheduled until
\* reconnect() is called.
C11_CapUntilManualReconnect ==
    /\ [](reconnectAttempts \in 0..maxReconnectAttempts /\ retryTimers <= 1)
    /\ [][reconnectAttempts = maxReconnectAttempts => ~RetryScheduled]_vars
    /\ [][gaveUp => ~RetryScheduled]_vars

\* Attempt s is started by the step.
Started(s) == sock[s].promise # "pending" /\ sock'[s].promise = "pending"

\* C12: a reconnect() leaves no retry timer armed and the counter at zero,
\* destroys the socket it found and starts exactly one connect attempt, which
\* is the one the client (and so the reconnect() call) then awaits.
C12_ManualReconnect ==
    [][ev'.type = "reconnect" =>
         /\ retryTimers' = 0 /\ reconnectTimer' = Null
         /\ reconnectAttempts' = 0
         /\ (ev'.s # Null /\ ~Started(ev'.s)) => sock'[ev'.s].st \notin {"connecting", "open"}
         /\ Cardinality({s \in Slots : Started(s)}) = 1
         /\ \A s \in Slots : Started(s) =>
                /\ connectPromise' = s /\ socket' = s
                /\ sock'[s].st = "connecting"
         /\ getConnectionState' = "connecting"]_vars

\* reconnect() was called while the tenth retry was armed, and cancelled it.
C12_Witness ==
    /\ ev.type = "reconnect"
    /\ ev.c = 30000
    /\ retryTimers = 0
    /\ reconnectAttempts = 0
    /\ connectPromise # Null

\* The 10 s timer of attempt s fires in the step.
TimerFired(s) == sock[s].timer /\ ~sock'[s].timer

\* C13: when the 10 s timer of an attempt fires and the attempt has neither
\* opened nor failed, every caller awaiting it is rejected with the
\* connection-timeout error and the state is disconnected afterwards.
C13_ConnectTimeoutFails ==
    [][\A s \in Slots :
         (TimerFired(s) /\ sock[s].st = "connecting" /\ sock[s].promise = "pending") =>
            /\ sock'[s].promise = "settled"
            /\ \A i \in 1..Len(waiters[s]) : outcome'[waiters[s][i]].kind = "connectTimeout"
            /\ getConnectionState' = "disconnected"]_vars

\* The calls a notification of state makes: every registered listener, in
\* registration order.
AllHear(state) ==
    [i \in 1..Len(connectionListeners) |->
        [l |-> connectionListeners[i].id, state |-> state]]

\* C14: on each change of the connection state every registered listener is
\* called, in registration order, with the new state, whether or not
\* listeners before it throw.
C14_ListenersNotified ==
    [][getConnectionState' # getConnectionState => heard' = AllHear(getConnectionState')]_vars

\* The positions of the response lines that carry request id r.
Answers(r) == {i \in 1..Len(srvOut) : srvOut[i].id = r}

\* C15: a request handled while its connection is open has exactly one
\* response line with its id, ok=true with an encrypted result when the
\* handler returned, ok=false with an error message when decryption or the
\* handler failed; no request id has two response lines.
C15_OneResponsePerRequest ==
    \A r \in ReqIds :
        /\ Cardinality(Answers(r)) <= 1
        /\ srvReq[r] \in {"returned", "threw", "undecryptable"} => Cardinality(Answers(r)) = 1
        /\ srvReq[r] \in {"none", "buffered", "running", "lost"} => Answers(r) = {}
        /\ \A i \in Answers(r) :
              /\ srvOut[i].ok <=> srvReq[r] = "returned"
              /\ srvOut[i].ok => srvOut[i].result = "encrypted" /\ srvOut[i].error = "absent"
              /\ ~srvOut[i].ok => srvOut[i].error = "message" /\ srvOut[i].result = "absent"

\* Three requests were answered, one of each kind, the first one not first.
C15_Witness ==
    /\ Len(srvOut) = 3
    /\ srvReq[1] = "returned"
    /\ srvReq[2] = "threw"
    /\ srvReq[3] = "undecryptable"
    /\ srvOut[1].id # 1
    /\ srvOpen

\* The last RPC handled was a poll of a tracked session, handled in the step.
PollStep == dres'.op = "poll" /\ sessions[dres'.sid] # Null

\* The events of a sequence are in arrival order.
InArrivalOrder(q) == \A i \in 1..Len(q) : \A j \in 1..Len(q) : i < j => q[i] < q[j]

\* C16: a clearing get-output returns every event buffered for the session, in
\* arrival order, and leaves the buffer empty; it returns no event an earlier
\* clearing poll returned, and returns nothing when it directly follows
\* another clearing poll of the session.
C16_ClearingPoll ==
    [][(PollStep /\ dres'.clear) =>
          LET p == sessions[dres'.sid]
          IN /\ dres'.messages = proc[p].outputBuffer
             /\ InArrivalOrder(dres'.messages)
             /\ proc'[p].outputBuffer = <<>>
             /\ Range(dres'.messages) \cap returned[p] = {}
             /\ (dres.op = "poll" /\ dres.clear /\ dres.sid = dres'.sid)
                    => dres'.messages = <<>>]_vars

\* A second clearing poll returned the two events appended after the first.
C16_Witness ==
    /\ dres.op = "poll" /\ dres.clear
    /\ dres.messages = <<2, 3>>
    /\ sessions[dres.sid] # Null
    /\ returned[sessions[dres.sid]] = {1, 2, 3}
    /\ proc[sessions[dres.sid]].outputBuffer = <<>>

\* Process p appends an event in the step.
Appended(p) == proc'[p].count = proc[p].count + 1

\* C17: after an append the buffer holds at most OutputCap events, which are
\* consecutive events ending with the one just appended, none of them
\* returned by a clearing poll already; the append to a full buffer leaves
\* exactly the OutputKeep most recent events.
C17_BufferCap ==
    [][\A p \in ProcIds : Appended(p) =>
          LET b == proc'[p].outputBuffer
              n == proc'[p].count
          IN /\ Len(b) \in 1..OutputCap
             /\ \A i \in 1..Len(b) : b[i] = n - Len(b) + i
             /\ Range(b) \cap returned'[p] = {}
             /\ Len(proc[p].outputBuffer) < OutputCap => b = Append(proc[p].outputBuffer, n)
             /\ Len(proc[p].outputBuffer) = OutputCap => Len(b) = OutputKeep]_vars

\* The buffer overflowed after a clearing poll had returned the first event:
\* events 2..1001 were buffered and the next append left the newest 500.
C17_Witness ==
    \E p \in ProcIds :
        /\ returned[p] = {1}
        /\ proc[p].count = OutputCap + 2
        /\ Len(proc[p].outputBuffer) = OutputKeep
        /\ proc[p].outputBuffer[1] = OutputCap + 2 - OutputKeep + 1
        /\ evicted[p] # {}

\* The events process p has appended.
AppendedEvents(p) == 1..proc[p].count

\* C18: on a tracked session every appended event is in exactly one place: in
\* the buffer (once), among the events clearing polls returned, or among the
\* events the overflow rule evicted; a clearing poll returns no event that a
\* clearing poll returned before.
C18_NoLossNoDuplicate ==
    /\ [](\A sid \in Sids : sessions[sid] # Null =>
             LET p == sessions[sid]
                 b == proc[p].outputBuffer
             IN /\ Range(b) \cup returned[p] \cup evicted[p] = AppendedEvents(p)
                /\ Cardinality(Range(b)) = Len(b)
                /\ Range(b) \cap returned[p] = {}
                /\ Range(b) \cap evicted[p] = {}
                /\ returned[p] \cap evicted[p] = {})
    /\ [][(PollStep /\ dres'.clear) =>
            LET p == sessions[dres'.sid]
            IN /\ Range(dres'.messages) \cap returned[p] = {}
               /\ returned'[p] = returned[p] \cup Range(proc[p].outputBuffer)
               /\ Cardinality(Range(dres'.messages)) = Len(dres'.messages)]_vars

\* An event was appended after a clearing poll returned the two before it,
\* and the session is still tracked.
C18_Witness ==
    \E sid \in Sids :
        /\ sessions[sid] # Null
        /\ returned[sessions[sid]] = {1, 2}
        /\ proc[sessions[sid]].outputBuffer = <<3>>
        /\ dres.op = "none"

\* Directory d, resolved, is the root itself or lies inside it.
Inside(root, d) ==
    LET r == resolve(d)
    IN Len(root) <= Len(r) /\ SubSeq(r, 1, Len(root)) = root

\* The last RPC handled was a spawn request, handled in the step.
SpawnStep == dres'.op = "spawn"

\* C19: with a root configured a spawn is accepted only for a directory that
\* resolves to the root or into it; for any other directory it returns an
\* error, starts no process and tracks no session.
C19_RootRestriction ==
    [][(SpawnStep /\ rootDir.set) =>
          /\ dres'.ok => Inside(rootDir.path, dres'.directory)
          /\ ~Inside(rootDir.path, dres'.directory) =>
                 /\ ~dres'.ok
                 /\ nProcs' = nProcs /\ proc' = proc
                 /\ sessions' = sessions]_vars

\* The last RPC handled was a send to session dres'.sid, handled in the step.
SendStep == dres'.op = "send"

\* C20: send-message reports success only when it wrote the text to the
\* stdin of the session's process; it reports failure for an untracked id and
\* for a tracked session whose stdin is destroyed.
C20_SendReportsWrite ==
    [][SendStep =>
          LET p == sessions[dres'.sid]
          IN /\ dres'.ok => dres'.wrote
             /\ p = Null => ~dres'.ok
             /\ (p # Null /\ ~proc[p].stdin) => ~dres'.ok]_vars

\* The last RPC handled was a stop of a tracked session, handled in the step.
StopStep == dres'.op = "stop" /\ sessions[dres'.sid] # Null

\* What the peer gets for session id sid in the current state.
Listed(sid) == \E x \in listSessions(DmnState).result.listed : x.sessionId = sid
SendOk(sid) == \E wthrow \in BOOLEAN : sendMessage(DmnState, sid, wthrow).result.ok
Polled(sid) == {getOutput(DmnState, sid, clear).result.messages : clear \in BOOLEAN}

\* C21: stop-session on a tracked id returns success, removes the entry in
\* the same step and signals the process, which has not exited yet; while
\* the id is not tracked, list-sessions omits it, send-message to it fails
\* and get-output for it returns no events.
C21_StopRemovesAtOnce ==
    /\ [][StopStep =>
            LET sid == dres'.sid
                p == sessions[sid]
            IN /\ dres'.ok
               /\ sessions'[sid] = Null
               /\ proc[p].state = "running" => proc'[p].state = "killed"
               /\ proc'[p].state # "exited"]_vars
    /\ [](\A sid \in Sids : sessions[sid] = Null =>
              /\ ~Listed(sid)
              /\ ~SendOk(sid)
              /\ Polled(sid) = {<<>>})

\* A running session with unpolled output was stopped: its process is
\* signalled and has not exited, and the id is no longer tracked.
C21_Witness ==
    /\ dres.op = "stop" /\ dres.ok
    /\ sessions[dres.sid] = Null
    /\ \E p \in ProcIds :
          /\ proc[p].sessionId = dres.sid
          /\ proc[p].state = "killed"
          /\ proc[p].outputBuffer # <<>>

\* Process p exits in the step.
Exits(p) == proc[p].state # "exited" /\ proc'[p].state = "exited"

\* C22: a successful spawn leaves the returned id tracked, bound to the
\* process just started, and no other id touched; a tracked id stops being
\* tracked only in a step in which its process exits or stop-session is
\* handled for it; and the exit of a tracked session's process removes the
\* entry, which list-sessions then no longer reports.
C22_TrackedUntilExitOrStop ==
    /\ [][(SpawnStep /\ dres'.ok) =>
            /\ nProcs' = nProcs + 1
            /\ sessions' = [sessions EXCEPT ![dres'.sid] = nProcs']
            /\ proc'[nProcs'].sessionId = dres'.sid]_vars
    /\ [][\A sid \in Sids :
            (sessions[sid] # Null /\ sessions'[sid] = Null) =>
                \/ Exits(sessions[sid])
                \/ dres'.op = "stop" /\ dres'.sid = sid]_vars
    /\ [][\A sid \in Sids :
            (sessions[sid] # Null /\ Exits(sessions[sid])) =>
                /\ sessions'[sid] = Null
                /\ ~Listed(sid)']_vars

\* The step handled send-message, get-output or stop-session for an id that
\* was not tracked.
MissingStep == dres'.op \in {"send", "poll", "stop"} /\ sessions[dres'.sid] = Null

\* C23: send-message, get-output and stop-session for an untracked id return
\* a not-found result (no success, no messages), write nothing, start no
\* store write and leave the registry and every process and buffer unchanged.
C23_MissingSessionIsNotFound ==
    [][MissingStep =>
          /\ ~dres'.ok /\ ~dres'.wrote
          /\ dres'.messages = <<>>
          /\ ~dres'.storeCalled
          /\ sessions' = sessions
          /\ proc' = proc
          /\ nProcs' = nProcs /\ dhtWrites' = dhtWrites
          /\ returned' = returned]_vars

\* stop-session was repeated for an id already stopped, while another
\* session is tracked with output in its buffer.
C23_Witness ==
    /\ dres.op = "stop" /\ ~dres.ok
    /\ \E p \in ProcIds : proc[p].sessionId = dres.sid /\ proc[p].state = "killed"
    /\ \E sid \in Sids :
          /\ sid # dres.sid
          /\ sessions[sid] # Null
          /\ proc[sessions[sid]].outputBuffer # <<>>

\* C24: a store write that settles, failed or not, changes nothing of the
\* daemon but the number of writes in flight, so the registry and the result
\* already returned by the spawn-session or stop-session that started it stand;
\* and while the daemon is shutting down no step starts a store write.
C24_StoreSyncIsDetached ==
    /\ [][dhtWrites' < dhtWrites =>
            /\ sessions' = sessions /\ proc' = proc /\ nProcs' = nProcs
            /\ isShuttingDown' = isShuttingDown]_vars
    /\ [][dres'.op \in {"spawn", "stop"} =>
            (dres'.ok <=> sessions'[dres'.sid] = (IF dres'.op = "spawn" THEN nProcs' ELSE Null)
                          /\ (dres'.op = "spawn" => nProcs' = nProcs + 1)
                          /\ (dres'.op = "stop" => sessions[dres'.sid] # Null))]_vars
    /\ [][isShuttingDown => dhtWrites' <= dhtWrites]_vars
    /\ [](isShuttingDown => ~dres.storeCalled)

\* During shutdown the process of a session exited while an earlier store
\* write was still in flight, and no store write was started for the exit.
C24_Witness ==
    /\ isShuttingDown
    /\ dres.op = "exit" /\ ~dres.storeCalled
    /\ dhtWrites > 0
    /\ \A sid \in Sids : sessions[sid] = Null

\* C25: the timeout of a call removes that call's pending entry and timer and
\* settles that call only; the connection state, the sockets, the calls
\* awaiting a connect attempt, the retry bookkeeping and every other pending
\* call with its timer are unchanged.
C25_TimeoutIsLocal ==
    [][ev'.type = "callTimeout" =>
          /\ pendingRequests' = pendingRequests \ {ev'.c}
          /\ callTimer' = callTimer \ {ev'.c}
          /\ \A d \in CallIds : d # ev'.c => outcome'[d] = outcome[d]
          /\ UNCHANGED <<connected, connectPromise, socket, sock, waiters, retryWait,
                         unanswered, reconnectAttempts, reconnectTimer, retryTimers,
                         isDestroyed, connectionListeners>>
          /\ heard' = <<>>]_vars

\* A call timed out while another call was pending with its timer armed.
C25_Witness ==
    /\ ev.type = "callTimeout"
    /\ outcome[ev.c].kind = "timeout"
    /\ \E d \in CallIds : d # ev.c /\ d \in pendingRequests /\ d \in callTimer
    /\ connected

\* C26: the requests a step writes are written in the order in which their
\* call() was invoked (calls are numbered in invocation order).
C26_WriteOrder ==
    [][\A i \in 1..Len(written') : \A j \in 1..Len(written') :
          i < j => written'[i] < written'[j]]_vars

\* C30: a response that matches a pending call either settles the call in
\* the same step or leaves its timeout armed, whatever its result envelope
\* is; the connection and the other pending calls are untouched.
C30_BadEnvelopeContained ==
    [][(ev'.type = "data" /\ ev'.c \in pendingRequests) =>
          /\ outcome'[ev'.c].kind # "none" \/ ev'.c \in callTimer'
          /\ pendingRequests \ {ev'.c} \subseteq pendingRequests'
          /\ callTimer \ {ev'.c} \subseteq callTimer'
          /\ \A d \in CallIds : d # ev'.c => outcome'[d] = outcome[d]
          /\ UNCHANGED <<connected, connectPromise, socket>>]_vars

\* C27: decrypting, under the key an envelope was made with, the envelope as
\* encrypt returned it yields the value that was encrypted, whether the same
\* codec or the other side's codec decrypts.
C27_RoundTrip ==
    (/\ opened.kind # "none"
     /\ opened.text = wire
     /\ sealed.by # "none"
     /\ KeyOf(opened.by) = KeyOf(sealed.by))
        => opened.kind = "value" /\ opened.val = sealed.data

C27_Witness ==
    /\ opened.kind = "value"
    /\ opened.text = wire
    /\ sealed.by = "client"
    /\ opened.by = "daemon"
    /\ sealed.data.t = "obj"
    /\ Len(sealed.data.items) = 4
    /\ opened.val = sealed.data

\* C28: decrypt fails with the too-short error on an envelope of fewer than
\* 29 bytes, and with the version error on one of 29 bytes or more whose
\* first byte is not 0, in both cases before a decipher is made.
C28_RejectsBeforeDecipher ==
    opened.kind # "none" =>
        LET bundle == fromBase64(opened.text)
            tooShort == IF opened.by = "client" THEN "Bundle too short"
                        ELSE "Encrypted bundle too short"
            badVersion == IF opened.by = "client" THEN "Unknown version"
                          ELSE "Unknown encryption version"
        IN  /\ Len(bundle) < 29 =>
                /\ opened.kind = "error"
                /\ opened.error = tooShort
                /\ ~opened.deciphered
            /\ (Len(bundle) >= 29 /\ bundle[1] # 0) =>
                /\ opened.kind = "error"
                /\ opened.error = badVersion
                /\ ~opened.deciphered

C28_Witness ==
    /\ opened.by = "daemon"
    /\ Len(fromBase64(opened.text)) >= 29
    /\ fromBase64(opened.text)[1] = 1
    /\ opened.error = "Unknown encryption version"

\* C38: a tracked entry disappears only in a step that handles stop-session
\* for its id, that shuts the daemon down, or in which the process the entry
\* is bound to exits; the exit of any other process leaves it in place.
C38_OnlyOwnExitRemoves ==
    [][\A sid \in Sids :
          (sessions[sid] # Null /\ sessions'[sid] = Null) =>
              \/ dres'.op = "stop" /\ dres'.sid = sid
              \/ dres'.op = "shutdown"
              \/ Exits(sessions[sid])]_vars

\* C39: every process started by a successful spawn that has not exited and
\* was not signalled by stop-session or shutdown is the process of exactly
\* one tracked entry.
C39_RunningIsTracked ==
    \A p \in 1..nProcs :
        proc[p].state = "running" =>
            Cardinality({sid \in Sids : sessions[sid] = p}) = 1

\* C40: on an open connection no request line is left in the buffer once no
\* handler is awaited, and a request that was handed to the handler is never
\* handed to it again, however the chunks and the handlers' completions
\* interleave.
C40_DispatchedExactlyOnce ==
    /\ [](srvOpen /\ srvPending = {} =>
            srvBuffer = <<>> /\ \A r \in ReqIds : srvReq[r] # "buffered")
    /\ [][\A r \in ReqIds :
            /\ srvReq[r] \notin {"none", "buffered"} => srvReq'[r] \notin {"none", "buffered"}
            /\ srvReq[r] \notin {"none", "buffered", "running"} => srvReq'[r] = srvReq[r]
            /\ srvReq'[r] = "running" <=> r \in srvPending']_vars

\* A later chunk's request was dispatched and answered while the handler of
\* the first request is still awaited, and a third is awaited as well.
C40_Witness ==
    /\ srvOpen
    /\ srvReq[1] = "running"
    /\ srvReq[2] = "returned"
    /\ srvReq[3] = "running"
    /\ Cardinality(Answers(2)) = 1

\* C33: when the 10 s timer of an attempt fires after that attempt has
\* succeeded or failed, the in-flight handle, the promises of the other
\* attempts and the callers awaiting them are left as they were.
C33_StaleTimerIsInert ==
    [][\A s \in Slots :
         (TimerFired(s) /\ sock[s].promise = "settled") =>
            /\ connectPromise' = connectPromise
            /\ \A r \in Slots : sock'[r].promise = sock[r].promise
            /\ UNCHANGED <<waiters, outcome, connected>>]_vars

\* C34: an event (open, error, close, data) of a socket that is not the
\* client's current socket leaves the connection flag, the in-flight handle,
\* the retry counter and timer, and the pending requests with their timers
\* and outcomes as they were.
C34_StaleSocketIsInert ==
    [][\A s \in Slots :
         (/\ s # socket
          /\ sock[s].st # "closed"
          /\ \/ sock'[s].st # sock[s].st
             \/ ev'.type = "data" /\ ev'.s = s) =>
            UNCHANGED <<connected, connectPromise, reconnectAttempts, reconnectTimer,
                        retryTimers, pendingRequests, callTimer, outcome>>]_vars

\* C36: no listener call repeats the state of the listener call before it,
\* and once a listener call has been made the state last told equals
\* getConnectionState() whenever no 'close' is still to follow an 'error'.
C36_NotificationsMirrorState ==
    /\ [][\A i \in 1..Len(heard') :
            heard'[i].state # (IF i = 1 THEN notified ELSE heard'[i - 1].state)]_vars
    /\ []((notified # "none" /\ ~Emitting) => notified = getConnectionState)

\* C37: destroy() rejects every pending call and cancels its timer; from then
\* on no retry timer is armed, no step starts a connect attempt, and every
\* call() made fails with the destroyed error.
C37_DestroyIsFinal ==
    /\ [][(isDestroyed' /\ ~isDestroyed) =>
            /\ pendingRequests' = {}
            /\ \A c \in pendingRequests :
                  outcome'[c].kind = "clientDestroyed" /\ c \notin callTimer']_vars
    /\ [](isDestroyed => reconnectTimer = Null /\ retryTimers = 0)
    /\ [][isDestroyed =>
            /\ isDestroyed'
            /\ nAttempts' = nAttempts
            /\ connectPromise' \in {connectPromise, Null}
            /\ \A s \in Slots : sock'[s].st = "connecting" => sock[s].st = "connecting"
            /\ nCalls' # nCalls => outcome'[nCalls'].kind = "clientDestroyed"]_vars

\* Two calls failed with the destroyed error on a client whose connection
\* had opened: rejected by destroy(), or made after it.
C37_Witness ==
    /\ isDestroyed
    /\ nCalls = 2
    /\ outcome[1].kind = "clientDestroyed"
    /\ outcome[2].kind = "clientDestroyed"
    /\ pendingRequests = {}
    /\ \E s \in Slots : sock[s].opened

\* The complete lines of a text, trimmed, without the blank ones.
CompleteLines(text) ==
    LET segs == split(text, <<>>)
        done == Take(segs, Len(segs) - 1)
    IN  SelectSeq([i \in 1..Len(done) |-> trim(done[i])], LAMBDA line : line # <<>>)

\* C31: on a connection whose reader started with an empty buffer, however
\* the bytes received were split into chunks, the lines handed on are the
\* complete lines of the text received, in order and once each, blank ones
\* left out, and the buffer holds the unterminated rest.
C31_LinesOfTheStream ==
    (rside = "server" \/ rconn = 1) =>
        /\ [i \in 1..Len(rlines) |-> trim(rlines[i])] = CompleteLines(fromUtf8(rsent))
        /\ LET segs == split(fromUtf8(rsent), <<>>) IN rbuf = segs[Len(segs)]

\* C35: when a connection of the client ends and the next begins, the
\* receive buffer is empty.
C35_BufferPerConnection ==
    [][(rside = "client" /\ rconn' # rconn) => rbuf' = <<>>]_vars

\* C32: a line that is not valid JSON produces no response line, so every
\* response line written carries the id of a request, and the lines after
\* it are still taken off the buffer and handled.
C32_MalformedIsSilent ==
    /\ \A i \in 1..Len(srvOut) : srvOut[i].id \in ReqIds /\ srvReq[srvOut[i].id] # "none"
    /\ (srvOpen /\ srvPending = {}) => srvBuffer = <<>>

====
